---- MODULE Spec2Model ----
(***************************************************************************)
(* Ctopia hub: verification model of the request gate (auth middleware,    *)
(* feature gate, settings), the push channel, the login rate limiter and   *)
(* the compose stack reconciler.                                           *)
(*                                                                         *)
(* Each component has its own specification over the shared variables:     *)
(*   Spec        the REST pipeline of internal/api (server.go)             *)
(*   SpecWS      the push channel: handleWS, pushState and the hub         *)
(*   SpecRL      the rate limiter driven by one caller at a time           *)
(*   SpecRLConc  the rate limiter under concurrent callers                 *)
(*   SpecStack   the stack reconciler of internal/docker                   *)
(* A specification leaves the variables of the other components unchanged. *)
(***************************************************************************)
EXTENDS Integers, Sequences, FiniteSets, TLC

VARIABLES
    \* ---- rate limiter (rateLimiter, part_008) ----
    now,        \* wall clock, in seconds (time.Now())
    buckets,    \* rl.buckets: origin -> sequence of timestamps (a partial map)
    thr,        \* one record per goroutine inside allow(): pc, ip, now
    gcst,       \* the gc goroutine: pc, cutoff
    nCalls,     \* number of allow() calls started so far (bounded by MaxCalls)
    admitted,   \* history: per origin, the timestamps of the admitted calls
    rejected,   \* history: per origin, the timestamps of the rejected calls
    \* ---- stack reconciler (docker.Manager, part_010) ----
    engine,     \* the container engine: container id -> its summary (Exists or not)
    fsys,       \* the filesystem: stack directory -> its four candidate files
    stacks,     \* what the last GetComposeStacks pass returned (ret "ok" or "err");
                \* ret is "none" once the engine has changed since
    \* ---- request gate (api.Server, part_007; settings.Service) ----
    cfgAuthEnabled, \* s.cfg.Auth.Enabled, fixed at startup
    authStore,      \* auth.Service.store: [configured], whether setup was done
    settings,       \* settings.Service.current
    req,            \* the requests in flight: pc, route, header, level, status,
                    \* and whether the handler called the engine / spawned pushState
    \* ---- push channel (handleWS, pushState, the hub; part_007) ----
    conns,      \* per websocket peer: pc, token, send (client.send), got (the
                \* last payload writePump wrote to the connection, if any)
    clients,    \* the hub's registry of subscribers
    hubIn,      \* s.hub.broadcast: payloads handed to the hub, not yet fanned out
    pending,    \* pushState goroutines spawned by handleWS, not yet run
    nPush,      \* number of pushState runs so far (bounded by MaxPushes)
    nCast,      \* number of payloads the hub has fanned out so far
    \* ---- stats aggregation (Manager.GetContainers, part_010) ----
    aggPc,      \* the pass: "idle", "collect" (ranging over statsChan), "done"
    aggList,    \* list: what ContainerList returned to the pass
    workers,    \* per list index, the goroutine of lines 76-85: pc, outcome of
                \* its stats call, the sample it holds
    statsChan,  \* statsChan: [buf, closed]
    wg,         \* the WaitGroup counter
    statsMap,   \* statsMap, as a set of samples keyed by their id
    aggResult,  \* what the pass returned: [ret, val]
    statsCalls, \* the ids ContainerStats was called for
    \* ---- mutating handlers and the pushes they spawn (part_007) ----
    acts,       \* per handler in flight: pc, verb, target, err, status, and the
                \* engine version its engine call returned at
    engHist,    \* history: the engine after each change, oldest first
    spawned,    \* the go s.pushState() goroutines of handlers, not yet run
    pushLog,    \* history: per run of such a goroutine, who spawned it, the
                \* engine versions at spawn and at recompute, the payload
    \* ---- settings.json across restarts (settings.go) ----
    setDisk,    \* file: the content of settings.json (<<>> is no file); mem:
                \* history, s.current after the last Update whose save
                \* succeeded; fresh: nothing has run since the last load
    \* ---- concurrent runs of pushState (part_007) ----
    ordSt,      \* ver: number of engine mutations so far; runs: per pushState
                \* run its pc and the engine version it read; ticks: ticker
                \* firings so far; handed: the versions of the payloads handed
                \* to the hub, in order
    \* ---- the compose command of a stack action (part_010) ----
    cmdRun,     \* cmds: m.composeCmds; call: the last ComposeAction call, its
                \* arguments, the command it ran and what it returned
    \* ---- auth.Service under concurrent callers (part_008) ----
    authSvc,    \* store: s.store (<<>> is nil); env: CTOPIA_JWT_SECRET (<<>> is
                \* unset); gen: number of secrets generateSecret has produced
    authCall,   \* per caller: pc, op, what it holds between its steps, result
    authHist,   \* history: tokens issued so far, number of Setup calls that
                \* returned a token
    \* ---- requests on the credential endpoints (part_007, part_008) ----
    credReq,    \* per request: pc, route, origin, password, status, and whether
                \* the auth service was called for it
    \* ---- the figures of one decoded stats response (part_010) ----
    calcIn,     \* the container.StatsResponse a stats call decoded
    calcOut,    \* what fetchStats returned for it: none yet, or cpu, mem, memLim
    \* ---- settings.Service under concurrent callers (settings.go) ----
    setSvc,     \* mu: the RWMutex (writer, readers); proc: per caller its pc,
                \* patch, position in the struct, copy so far and result;
                \* hist: history, s.current after each whole update
    \* ---- browser push client (WSClient, web/src/main.tsx) ----
    wsc         \* per WSClient: dead, the sockets it made (this.ws is the
                \* last), pending reconnect timers, connected as reported to
                \* the page, and history counters

rlvars == <<now, buckets, thr, gcst, nCalls, admitted, rejected>>
stackvars == <<engine, fsys, stacks>>
gatevars == <<cfgAuthEnabled, authStore, settings, req>>
wsvars == <<conns, clients, hubIn, pending, nPush, nCast>>
mutvars == <<acts, engHist, spawned, pushLog>>
aggvars == <<aggPc, aggList, workers, statsChan, wg, statsMap, aggResult, statsCalls>>
setvars == <<setSvc>>
calcvars == <<calcIn, calcOut>>
credvars == <<credReq>>
authvars == <<authSvc, authCall, authHist>>
cmdvars == <<cmdRun>>
ordvars == <<ordSt>>
diskvars == <<setDisk>>
clivars == <<wsc>>
vars == <<rlvars, stackvars, gatevars, wsvars, aggvars, mutvars, setvars, calcvars,
          credvars, authvars, cmdvars, ordvars, diskvars, clivars>>

(***************************************************************************)
(*                            STACK RECONCILER                             *)
(***************************************************************************)

\* Container ids as (first 12 characters, rest): c.ID[:12] is the first part.
ContainerIDs == {<<"a1b2", "x">>, <<"a1b2", "y">>, <<"c3d4", "x">>}

\* The engine's listing order (ContainerList), fixed per id.
ListOrder == << <<"a1b2", "x">>, <<"a1b2", "y">>, <<"c3d4", "x">> >>

\* c.ID[:12]
shortID(id) == id[1]

\* The (com.docker.compose.project, com.docker.compose.service) label pairs a
\* container of the model may carry; "" is a missing label.
LabelPairs ==
    { <<"web", "app">>, <<"web", "db">>, <<"web", "cache">>,
      <<"shop", "app">>, <<"web", "">>, <<"", "app">> }

ContainerStates == {"running", "exited"}

summary(id, st, lp) ==
    [Exists |-> TRUE, ID |-> id, State |-> st,
     Status |-> IF st = "running" THEN "Up" ELSE "Exited (0)",
     Project |-> lp[1], Service |-> lp[2]]

\* No container under this id (also the zero value of container.Summary).
Absent ==
    [Exists |-> FALSE, ID |-> <<"", "">>, State |-> "", Status |-> "",
     Project |-> "", Service |-> ""]

\* m.cfg.Composes: the declared stacks (name, path as its components). The
\* first stack's configured name is also a project label of the engine.
Composes ==
    << [Name |-> "shop", Path |-> <<"srv", "web">>],
       [Name |-> "monitoring", Path |-> <<"opt", "mon">>] >>

\* A parsed declaration: composeFile{Name, Services}.
CF(name, services) == [kind |-> "parsed", Name |-> name, Services |-> services]

\* A file os.ReadFile cannot read, and one yaml.Unmarshal rejects.
Missing == [kind |-> "missing", Name |-> "", Services |-> {}]
Garbage == [kind |-> "garbage", Name |-> "", Services |-> {}]

\* The nil *composeFile.
NilCF == [kind |-> "nil", Name |-> "", Services |-> {}]

\* The directory contents of the model: the four candidate files in the order
\* docker-compose.yml, docker-compose.yaml, compose.yml, compose.yaml, each
\* Missing (os.ReadFile fails), Garbage (yaml.Unmarshal fails) or parsed.
DirLayouts ==
    { << CF("", {}), Missing, Missing, Missing >>,
      << CF("", {"app"}), Missing, Missing, Missing >>,
      << CF("", {"app", "db", "cache"}), Missing, Missing, Missing >>,
      << CF("web", {"app", "db"}), Missing, Missing, Missing >>,
      << Missing, Garbage, CF("shop", {"app", "db"}), CF("", {"cache"}) >>,
      << Missing, Garbage, Missing, Garbage >> }

\* The second stack's directory: one service, or no readable declaration.
DirLayouts2 ==
    { << Missing, CF("web", {"db"}), Missing, Missing >>,
      << Missing, Missing, Missing, Missing >> }

\* filepath.Base(path)
Base(path) == IF Len(path) = 0 THEN "." ELSE path[Len(path)]

\* Mutant of probe: the first readable candidate decides, parsable or not.
RECURSIVE probeFirstReadable(_, _)
probeFirstReadable(files, i) ==
    IF i > Len(files) THEN NilCF
    ELSE IF files[i].kind = "missing" THEN probeFirstReadable(files, i + 1)
    ELSE IF files[i].kind = "garbage" THEN NilCF
    ELSE files[i]

\* readComposeFile(dir): the first candidate that is readable and parses.
RECURSIVE probe(_, _)
probe(files, i) ==
    IF i > Len(files) THEN NilCF
    ELSE IF files[i].kind \in {"missing", "garbage"} THEN probe(files, i + 1)
    ELSE files[i]

readComposeFile(fs, dir) == probe(fs[dir], 1)

\* Mutant of resolveProjectName: the directory name, whatever the file says.
resolveProjectNameBaseOnly(fs, path) == Base(path)

\* resolveProjectName(path)
resolveProjectName(fs, path) ==
    LET cf == readComposeFile(fs, path)
    IN  IF cf # NilCF /\ cf.Name # "" THEN cf.Name ELSE Base(path)

\* parseServiceNames(path): the keys of cf.Services; the order of the returned
\* slice is that of a Go map iteration, so only the set is determined.
parseServiceNames(fs, path) ==
    LET cf == readComposeFile(fs, path)
    IN  IF cf = NilCF THEN {} ELSE cf.Services

\* The orders in which a map iteration may deliver the names.
Orders(names) ==
    { o \in [1..Cardinality(names) -> names] :
        \A i, j \in 1..Cardinality(names) : i # j => o[i] # o[j] }

\* ContainerList(All: true): the summaries of the existing containers.
containerList(eng) ==
    LET ids == SelectSeq(ListOrder, LAMBDA id : eng[id].Exists)
    IN  [i \in 1..Len(ids) |-> eng[ids[i]]]

\* GetComposeStacks, lines 234-239: group by project label.
byProjectOf(list, proj) ==
    IF proj = "" THEN <<>> ELSE SelectSeq(list, LAMBDA c : c.Project = proj)

\* buildStack, lines 254-259 and the lookup of line 265: containerByService[svc]
\* is the last container of the project carrying that service label; the zero
\* Summary (Exists FALSE) stands for "not in the map".
containerByService(dockerContainers, svc) ==
    LET idx == {i \in 1..Len(dockerContainers) :
                   dockerContainers[i].Service = svc /\ svc # ""}
    IN  IF idx = {} THEN Absent
        ELSE dockerContainers[CHOOSE i \in idx : \A j \in idx : j <= i]

\* Mutant of stackStatus: "running" as soon as running == len(serviceNames),
\* without the running > 0 test.
stackStatusNoZeroTest(running, n) ==
    IF running = n THEN "running"
    ELSE IF running > 0 THEN "partial"
    ELSE "stopped"

\* Mutant of stackStatus: any running service makes the stack "running".
stackStatusNoPartial(running, n) ==
    IF running > 0 THEN "running" ELSE "stopped"

\* buildStack, lines 277-282.
stackStatus(running, n) ==
    IF running > 0 /\ running = n THEN "running"
    ELSE IF running > 0 THEN "partial"
    ELSE "stopped"

\* Mutant of composeService: a service without a container keeps the zero
\* values of ComposeService instead of "not created" / "stopped".
composeServiceZeroValue(dockerContainers, svcName) ==
    LET c == containerByService(dockerContainers, svcName)
    IN  IF ~c.Exists
        THEN [Name |-> svcName, ContainerID |-> "", Status |-> "",
              State |-> "", Running |-> FALSE]
        ELSE [Name |-> svcName, ContainerID |-> shortID(c.ID), Status |-> c.Status,
              State |-> c.State, Running |-> (c.State = "running")]

\* buildStack, lines 263-275: one ComposeService per declared name.
composeService(dockerContainers, svcName) ==
    LET c == containerByService(dockerContainers, svcName)
    IN  IF ~c.Exists
        THEN [Name |-> svcName, ContainerID |-> "", Status |-> "not created",
              State |-> "stopped", Running |-> FALSE]
        ELSE [Name |-> svcName, ContainerID |-> shortID(c.ID), Status |-> c.Status,
              State |-> c.State, Running |-> (c.State = "running")]

\* buildStack(cc, byProject) with serviceNames in the order the map gave them.
buildStack(fs, cc, list, serviceNames) ==
    LET projectName == resolveProjectName(fs, cc.Path)
        dockerContainers == byProjectOf(list, projectName)
        services == [i \in 1..Len(serviceNames) |->
                        composeService(dockerContainers, serviceNames[i])]
        running == Cardinality({i \in 1..Len(services) : services[i].Running})
    IN  [Name |-> cc.Name, Path |-> cc.Path,
         Status |-> stackStatus(running, Len(serviceNames)),
         Services |-> services]

\* No pass has returned since the engine last changed.
NoStacks == [ret |-> "none", val |-> <<>>]

StackInit ==
    /\ engine = [id \in ContainerIDs |-> Absent]
    /\ fsys \in { f \in [{Composes[1].Path, Composes[2].Path} -> DirLayouts \cup DirLayouts2] :
                    f[Composes[1].Path] \in DirLayouts /\ f[Composes[2].Path] \in DirLayouts2 }
    /\ stacks = NoStacks

\* The reconciler's variables at rest: an empty engine, the first layouts.
StackIdle ==
    /\ engine = [id \in ContainerIDs |-> Absent]
    /\ fsys = [p \in {Composes[1].Path, Composes[2].Path} |->
                 IF p = Composes[1].Path
                 THEN << CF("", {"app", "db"}), Missing, Missing, Missing >>
                 ELSE << Missing, Missing, Missing, Missing >>]
    /\ stacks = NoStacks

\* The engine creates a container (compose up, docker run).
EngineCreate(id, st, lp) ==
    /\ ~engine[id].Exists
    /\ engine' = [engine EXCEPT ![id] = summary(id, st, lp)]
    /\ stacks' = NoStacks
    /\ UNCHANGED <<fsys, rlvars, gatevars, wsvars, aggvars, mutvars, setvars, calcvars, credvars, authvars, cmdvars, ordvars, diskvars, clivars>>

\* The engine removes a container.
EngineRemove(id) ==
    /\ engine[id].Exists
    /\ engine' = [engine EXCEPT ![id] = Absent]
    /\ stacks' = NoStacks
    /\ UNCHANGED <<fsys, rlvars, gatevars, wsvars, aggvars, mutvars, setvars, calcvars, credvars, authvars, cmdvars, ordvars, diskvars, clivars>>

\* A container starts or stops.
EngineSetState(id, st) ==
    /\ engine[id].Exists
    /\ engine[id].State # st
    /\ engine' = [engine EXCEPT ![id] =
                     summary(id, st, <<engine[id].Project, engine[id].Service>>)]
    /\ stacks' = NoStacks
    /\ UNCHANGED <<fsys, rlvars, gatevars, wsvars, aggvars, mutvars, setvars, calcvars, credvars, authvars, cmdvars, ordvars, diskvars, clivars>>

\* GetComposeStacks, lines 227-247: one reconciliation pass.
GetComposeStacks ==
    /\ \/ stacks' = [ret |-> "err", val |-> <<>>]
       \/ \E o1 \in Orders(parseServiceNames(fsys, Composes[1].Path)),
             o2 \in Orders(parseServiceNames(fsys, Composes[2].Path)) :
             stacks' = [ret |-> "ok",
                        val |-> << buildStack(fsys, Composes[1], containerList(engine), o1),
                                   buildStack(fsys, Composes[2], containerList(engine), o2) >>]
    /\ UNCHANGED <<engine, fsys, rlvars, gatevars, wsvars, aggvars, mutvars, setvars, calcvars, credvars, authvars, cmdvars, ordvars, diskvars, clivars>>

NextStack ==
    \/ \E id \in ContainerIDs, st \in ContainerStates, lp \in LabelPairs :
          EngineCreate(id, st, lp)
    \/ \E id \in ContainerIDs : EngineRemove(id)
    \/ \E id \in ContainerIDs, st \in ContainerStates : EngineSetState(id, st)
    \/ GetComposeStacks

(***************************************************************************)
(*                              REQUEST GATE                               *)
(***************************************************************************)

\* The switches of settings.FeatureSet (ContainerFeatures, ComposeFeatures,
\* ImageFeatures).
Switches ==
    { "containers.view", "containers.start", "containers.stop",
      "containers.restart", "containers.delete",
      "composes.view", "composes.start", "composes.stop", "composes.restart",
      "images.view", "images.delete", "images.prune", "images.pull" }

AllOn == [sw \in Switches |-> TRUE]
AllOff == [sw \in Switches |-> FALSE]

\* applyDefaults: the default admin and public FeatureSet.
DefaultAdminFeatures == AllOn
DefaultPublicFeatures ==
    [sw \in Switches |-> sw \in {"containers.view", "composes.view"}]

isZeroFeatureSet(f) == \A sw \in Switches : ~f[sw]

\* Service.applyDefaults
applyDefaults(st) ==
    [st EXCEPT
       !.AdminFeatures = IF isZeroFeatureSet(@) THEN DefaultAdminFeatures ELSE @,
       !.PublicFeatures = IF isZeroFeatureSet(@) THEN DefaultPublicFeatures ELSE @]

\* The zero Settings value.
ZeroSettings ==
    [AuthlessMode |-> FALSE, RemoveVolumesOnStop |-> FALSE,
     AdminFeatures |-> AllOff, PublicFeatures |-> AllOff]

\* The feature-gated routes of Server.routes, each with the one switch its
\* requireFeature getter reads.
FeatureRoutes ==
    { "GET /api/containers", "POST /api/containers/{id}/start",
      "POST /api/containers/{id}/stop", "POST /api/containers/{id}/restart",
      "DELETE /api/containers/{id}",
      "GET /api/composes", "POST /api/composes/{name}/start",
      "POST /api/composes/{name}/stop", "POST /api/composes/{name}/restart",
      "GET /api/images", "POST /api/images/prune", "POST /api/images/pull",
      "DELETE /api/images/{id}" }

\* routes(), lines 128-132: the routes behind requireAdmin.
AdminRoutes ==
    { "POST /api/auth/password", "GET /api/settings", "POST /api/settings" }

Routes == FeatureRoutes \cup AdminRoutes

\* Mutant of routeSwitch: every route of a section is gated by the section's
\* view switch.
routeSwitchViewOnly(route) ==
    CASE route \in { "GET /api/containers", "POST /api/containers/{id}/start",
                     "POST /api/containers/{id}/stop",
                     "POST /api/containers/{id}/restart",
                     "DELETE /api/containers/{id}" } -> "containers.view"
      [] route \in { "GET /api/composes", "POST /api/composes/{name}/start",
                     "POST /api/composes/{name}/stop",
                     "POST /api/composes/{name}/restart" } -> "composes.view"
      [] OTHER -> "images.view"

\* routes(), lines 96-125: the getter handed to requireFeature for each route.
routeSwitch(route) ==
    CASE route = "GET /api/containers" -> "containers.view"
      [] route = "POST /api/containers/{id}/start" -> "containers.start"
      [] route = "POST /api/containers/{id}/stop" -> "containers.stop"
      [] route = "POST /api/containers/{id}/restart" -> "containers.restart"
      [] route = "DELETE /api/containers/{id}" -> "containers.delete"
      [] route = "GET /api/composes" -> "composes.view"
      [] route = "POST /api/composes/{name}/start" -> "composes.start"
      [] route = "POST /api/composes/{name}/stop" -> "composes.stop"
      [] route = "POST /api/composes/{name}/restart" -> "composes.restart"
      [] route = "GET /api/images" -> "images.view"
      [] route = "POST /api/images/prune" -> "images.prune"
      [] route = "POST /api/images/pull" -> "images.pull"
      [] route = "DELETE /api/images/{id}" -> "images.delete"

\* The Authorization headers of the model: none, a bearer token that validates,
\* a bearer token that does not, and a valid token under another scheme.
NoHeader == [scheme |-> "", cred |-> ""]
Headers ==
    { NoHeader, [scheme |-> "Bearer", cred |-> "good"],
      [scheme |-> "Bearer", cred |-> "bad"] }

\* authMiddleware, lines 254-257: the token is what follows "Bearer ".
bearerToken(h) == IF h.scheme = "Bearer" THEN h.cred ELSE ""

\* auth.Service.ValidateToken(token) == nil: the store exists and the token
\* parses, is signed with the store's secret and has not expired.
ValidateToken(store, token) == store.configured /\ token = "good"

\* authMiddleware, line 258.
isValidToken(store, h) ==
    bearerToken(h) # "" /\ ValidateToken(store, bearerToken(h))

\* Mutant of resolveLevel: authless mode makes every caller public, token or not.
resolveLevelAuthlessPublic(authEnabled, st, valid) ==
    IF authEnabled /\ ~st.AuthlessMode
    THEN IF ~valid THEN "unauthorized" ELSE "admin"
    ELSE IF valid /\ ~st.AuthlessMode THEN "admin" ELSE "public"

\* Mutant of resolveLevel: the 401 branch is lost and the caller goes on as
\* public.
resolveLevelNoReject(authEnabled, st, valid) ==
    IF valid THEN "admin" ELSE "public"

\* Mutant of resolveLevel: the authless switch is not read.
resolveLevelAuthlessIgnored(authEnabled, st, valid) ==
    IF authEnabled
    THEN IF ~valid THEN "unauthorized" ELSE "admin"
    ELSE IF valid THEN "admin" ELSE "public"

\* authMiddleware, lines 251-276: "unauthorized" (401, the chain stops) or the
\* authLevel put in the request context.
resolveLevel(authEnabled, st, valid) ==
    LET authRequired == authEnabled /\ ~st.AuthlessMode
    IN  IF authRequired
        THEN IF ~valid THEN "unauthorized" ELSE "admin"
        ELSE IF valid THEN "admin" ELSE "public"

\* Mutant of featuresFor: the public profile is read for every caller.
featuresForAlwaysPublic(st, level) == st.PublicFeatures

\* requireFeature, lines 297-304: the FeatureSet of the caller's level.
featuresFor(st, level) ==
    IF level = "admin" THEN st.AdminFeatures ELSE st.PublicFeatures

\* Mutant of featurePermits: the gate lets every resolved caller through.
featurePermitsAlways(st, level, route) == TRUE

\* requireFeature, lines 305-309: getter(features).
featurePermits(st, level, route) == featuresFor(st, level)[routeSwitch(route)]

\* The request slots: r1 carries any route, r2 is a concurrent settings update.
Reqs == {"r1", "r2"}
RoutesOf(r) == IF r = "r1" THEN Routes ELSE {"POST /api/settings"}
HeadersOf(r) == IF r = "r1" THEN Headers ELSE {NoHeader, [scheme |-> "Bearer", cred |-> "good"]}

\* retry: the request repeats (same route, same header) the request this slot
\* carried before, which was answered 403.
IdleReq ==
    [pc |-> "idle", route |-> "", header |-> NoHeader, level |-> "",
     status |-> 0, called |-> FALSE, pushed |-> FALSE, retry |-> FALSE]

\* The FeatureSet values a settings patch of the model may carry.
PatchFeatureSets == {AllOn, AllOff, DefaultPublicFeatures}

\* The body of POST /api/settings: each field a nil pointer (<<>>) or a value.
Patches ==
    [AuthlessMode : {<<>>, <<TRUE>>, <<FALSE>>},
     RemoveVolumesOnStop : {<<>>},
     AdminFeatures : {<<>>} \cup {<<f>> : f \in {AllOn, AllOff}},
     PublicFeatures : {<<>>} \cup {<<f>> : f \in PatchFeatureSets}]

\* handleUpdateSettings, lines 332-344: the mutator handed to Update.
applyPatch(st, patch) ==
    [AuthlessMode |->
        IF patch.AuthlessMode # <<>> THEN patch.AuthlessMode[1] ELSE st.AuthlessMode,
     RemoveVolumesOnStop |->
        IF patch.RemoveVolumesOnStop # <<>> THEN patch.RemoveVolumesOnStop[1]
        ELSE st.RemoveVolumesOnStop,
     AdminFeatures |->
        IF patch.AdminFeatures # <<>> THEN patch.AdminFeatures[1] ELSE st.AdminFeatures,
     PublicFeatures |->
        IF patch.PublicFeatures # <<>> THEN patch.PublicFeatures[1]
        ELSE st.PublicFeatures]

GateInit ==
    /\ cfgAuthEnabled \in BOOLEAN
    /\ authStore \in [configured : BOOLEAN]
    /\ settings = applyDefaults(ZeroSettings)
    /\ req = [r \in Reqs |-> IdleReq]

\* The gate's variables at rest.
GateIdle ==
    /\ cfgAuthEnabled = TRUE
    /\ authStore = [configured |-> TRUE]
    /\ settings = applyDefaults(ZeroSettings)
    /\ req = [r \in Reqs |-> IdleReq]

\* The request r is answered with status and leaves the chain.
respond(r, status) ==
    req' = [req EXCEPT ![r].pc = "done", ![r].status = status]

\* A request enters the router group of routes(), lines 92-133.
Arrive(r, route, h) ==
    /\ req[r].pc \in {"idle", "done"}
    /\ route \in RoutesOf(r)
    /\ h \in HeadersOf(r)
    /\ req' = [req EXCEPT ![r] =
                 [pc |-> "auth", route |-> route, header |-> h, level |-> "",
                  status |-> 0, called |-> FALSE, pushed |-> FALSE,
                  retry |-> (req[r].pc = "done" /\ req[r].status = 403
                             /\ req[r].route = route /\ req[r].header = h)]]
    /\ UNCHANGED <<cfgAuthEnabled, authStore, settings>>
    /\ UNCHANGED <<rlvars, stackvars, wsvars, aggvars, mutvars, setvars, calcvars, credvars, authvars, cmdvars, ordvars, diskvars, clivars>>

\* authMiddleware, lines 249-278.
authMiddleware(r) ==
    /\ req[r].pc = "auth"
    /\ LET lv == resolveLevel(cfgAuthEnabled, settings,
                              isValidToken(authStore, req[r].header))
       IN  IF lv = "unauthorized"
           THEN respond(r, 401)
           ELSE req' = [req EXCEPT ![r].level = lv,
                          ![r].pc = IF req[r].route \in FeatureRoutes
                                    THEN "feature" ELSE "admin"]
    /\ UNCHANGED <<cfgAuthEnabled, authStore, settings>>
    /\ UNCHANGED <<rlvars, stackvars, wsvars, aggvars, mutvars, setvars, calcvars, credvars, authvars, cmdvars, ordvars, diskvars, clivars>>

\* Mutant of adminPermits: the gate looks the caller's FeatureSet up and admits
\* when a switch of it is on.
adminPermitsFeatureLookup(st, level) ==
    \E f \in DOMAIN AllOn : featuresFor(st, level)[f]

\* requireAdmin, lines 283-284: the level of the request context decides; the
\* settings are not read.
adminPermits(st, level) == level = "admin"

\* requireAdmin, lines 281-290.
requireAdmin(r) ==
    /\ req[r].pc = "admin"
    /\ IF ~adminPermits(settings, req[r].level)
       THEN respond(r, 403)
       ELSE req' = [req EXCEPT ![r].pc = "handler"]
    /\ UNCHANGED <<cfgAuthEnabled, authStore, settings>>
    /\ UNCHANGED <<rlvars, stackvars, wsvars, aggvars, mutvars, setvars, calcvars, credvars, authvars, cmdvars, ordvars, diskvars, clivars>>

\* requireFeature, lines 294-312.
requireFeature(r) ==
    /\ req[r].pc = "feature"
    /\ IF ~featurePermits(settings, req[r].level, req[r].route)
       THEN respond(r, 403)
       ELSE req' = [req EXCEPT ![r].pc = "handler"]
    /\ UNCHANGED <<cfgAuthEnabled, authStore, settings>>
    /\ UNCHANGED <<rlvars, stackvars, wsvars, aggvars, mutvars, setvars, calcvars, credvars, authvars, cmdvars, ordvars, diskvars, clivars>>

\* handleContainers, handleComposes, handleImages: one engine listing, 200 with
\* the list or 500 with the error.
handleList(r) ==
    /\ req[r].pc = "handler"
    /\ req[r].route \in {"GET /api/containers", "GET /api/composes", "GET /api/images"}
    /\ \E ok \in BOOLEAN :
          req' = [req EXCEPT ![r].pc = "done", ![r].called = TRUE,
                             ![r].status = IF ok THEN 200 ELSE 500]
    /\ UNCHANGED <<cfgAuthEnabled, authStore, settings>>
    /\ UNCHANGED <<rlvars, stackvars, wsvars, aggvars, mutvars, setvars, calcvars, credvars, authvars, cmdvars, ordvars, diskvars, clivars>>

\* handleContainerAction, handleContainerDelete, handleComposeAction: the engine
\* call (or compose command); on error 500, otherwise go s.pushState() and 204.
handleAction(r) ==
    /\ req[r].pc = "handler"
    /\ req[r].route \in
          { "POST /api/containers/{id}/start", "POST /api/containers/{id}/stop",
            "POST /api/containers/{id}/restart", "DELETE /api/containers/{id}",
            "POST /api/composes/{name}/start", "POST /api/composes/{name}/stop",
            "POST /api/composes/{name}/restart" }
    /\ \E ok \in BOOLEAN :
          req' = [req EXCEPT ![r].pc = "done", ![r].called = TRUE,
                             ![r].pushed = ok,
                             ![r].status = IF ok THEN 204 ELSE 500]
    /\ UNCHANGED <<cfgAuthEnabled, authStore, settings>>
    /\ UNCHANGED <<rlvars, stackvars, wsvars, aggvars, mutvars, setvars, calcvars, credvars, authvars, cmdvars, ordvars, diskvars, clivars>>

\* handleImageRemove, handleImagePrune: the engine call, no pushState.
handleImageChange(r) ==
    /\ req[r].pc = "handler"
    /\ req[r].route \in {"DELETE /api/images/{id}", "POST /api/images/prune"}
    /\ \E ok \in BOOLEAN :
          req' = [req EXCEPT ![r].pc = "done", ![r].called = TRUE,
                             ![r].status =
                                IF ~ok THEN 500
                                ELSE IF req[r].route = "POST /api/images/prune"
                                     THEN 200 ELSE 204]
    /\ UNCHANGED <<cfgAuthEnabled, authStore, settings>>
    /\ UNCHANGED <<rlvars, stackvars, wsvars, aggvars, mutvars, setvars, calcvars, credvars, authvars, cmdvars, ordvars, diskvars, clivars>>

\* handleImagePull: 400 on a body without ref, else the pull, no pushState.
handleImagePull(r) ==
    /\ req[r].pc = "handler"
    /\ req[r].route = "POST /api/images/pull"
    /\ \/ respond(r, 400)
       \/ \E ok \in BOOLEAN :
             req' = [req EXCEPT ![r].pc = "done", ![r].called = TRUE,
                                ![r].status = IF ok THEN 204 ELSE 500]
    /\ UNCHANGED <<cfgAuthEnabled, authStore, settings>>
    /\ UNCHANGED <<rlvars, stackvars, wsvars, aggvars, mutvars, setvars, calcvars, credvars, authvars, cmdvars, ordvars, diskvars, clivars>>

\* handleGetSettings
handleGetSettings(r) ==
    /\ req[r].pc = "handler"
    /\ req[r].route = "GET /api/settings"
    /\ respond(r, 200)
    /\ UNCHANGED <<cfgAuthEnabled, authStore, settings>>
    /\ UNCHANGED <<rlvars, stackvars, wsvars, aggvars, mutvars, setvars, calcvars, credvars, authvars, cmdvars, ordvars, diskvars, clivars>>

\* handleUpdateSettings, lines 321-351: 400 on an undecodable body; otherwise
\* Update applies the patch to s.current and saves, 500 if the save fails (the
\* patch stays applied in memory), else 200.
handleUpdateSettings(r) ==
    /\ req[r].pc = "handler"
    /\ req[r].route = "POST /api/settings"
    /\ \/ /\ respond(r, 400)
          /\ UNCHANGED settings
       \/ \E patch \in Patches, saved \in BOOLEAN :
             /\ settings' = applyPatch(settings, patch)
             /\ respond(r, IF saved THEN 200 ELSE 500)
    /\ UNCHANGED <<cfgAuthEnabled, authStore>>
    /\ UNCHANGED <<rlvars, stackvars, wsvars, aggvars, mutvars, setvars, calcvars, credvars, authvars, cmdvars, ordvars, diskvars, clivars>>

\* handleChangePassword, lines 215-231: 400 on a bad body, a wrong current
\* password or a weak new one, else the hash and the signing secret are
\* replaced and a token is returned. The store stays set up; a header that
\* validates is one signed with the secret of the moment it is validated.
handleChangePassword(r) ==
    /\ req[r].pc = "handler"
    /\ req[r].route = "POST /api/auth/password"
    /\ \/ respond(r, 400)
       \/ authStore.configured /\ respond(r, 200)
    /\ UNCHANGED <<cfgAuthEnabled, authStore, settings>>
    /\ UNCHANGED <<rlvars, stackvars, wsvars, aggvars, mutvars, setvars, calcvars, credvars, authvars, cmdvars, ordvars, diskvars, clivars>>

Next ==
    \/ \E r \in Reqs, route \in Routes, h \in Headers : Arrive(r, route, h)
    \/ \E r \in Reqs : authMiddleware(r)
    \/ \E r \in Reqs : requireAdmin(r)
    \/ \E r \in Reqs : requireFeature(r)
    \/ \E r \in Reqs : handleList(r)
    \/ \E r \in Reqs : handleAction(r)
    \/ \E r \in Reqs : handleImageChange(r)
    \/ \E r \in Reqs : handleImagePull(r)
    \/ \E r \in Reqs : handleGetSettings(r)
    \/ \E r \in Reqs : handleUpdateSettings(r)
    \/ \E r \in Reqs : handleChangePassword(r)

(***************************************************************************)
(*                            SETTINGS SERVICE                             *)
(***************************************************************************)

\* The callers of the model: two requests that update, one that reads.
Updaters == {"u1", "u2"}
Getters == {"g1"}
SetCallers == Updaters \cup Getters

\* The fields of Settings in declaration order, which is the order of the
\* mutator's if statements and of a struct copy.
SettingsFields ==
    << "AuthlessMode", "RemoveVolumesOnStop", "AdminFeatures", "PublicFeatures" >>

\* The bodies of POST /api/settings the updaters send: every field absent or
\* present, with values that differ from the defaults.
ServicePatches ==
    [AuthlessMode : {<<>>, <<TRUE>>},
     RemoveVolumesOnStop : {<<>>, <<TRUE>>, <<FALSE>>},
     AdminFeatures : {<<>>, <<AllOff>>},
     PublicFeatures : {<<>>, <<AllOn>>}]

NoPatch ==
    [AuthlessMode |-> <<>>, RemoveVolumesOnStop |-> <<>>,
     AdminFeatures |-> <<>>, PublicFeatures |-> <<>>]

\* Mutant of applyPatchField: the body is decoded into a Settings value, so an
\* absent field arrives as its zero value.
applyPatchFieldZeroing(st, patch, f) ==
    IF patch[f] # <<>> THEN [st EXCEPT ![f] = patch[f][1]]
    ELSE [st EXCEPT ![f] = ZeroSettings[f]]

\* handleUpdateSettings, lines 332-344: one if statement of the mutator.
applyPatchField(st, patch, f) ==
    IF patch[f] # <<>> THEN [st EXCEPT ![f] = patch[f][1]] ELSE st

\* Mutant of readable: Get takes no lock.
readableAlways(mu) == TRUE

\* sync.RWMutex: RLock goes through while no writer holds the lock.
readable(mu) == mu.writer = ""

\* sync.RWMutex: Lock goes through while nobody holds the lock.
writable(mu) == mu.writer = "" /\ mu.readers = {}

IdleCaller ==
    [pc |-> "idle", patch |-> NoPatch, at |-> 0, before |-> ZeroSettings,
     copy |-> ZeroSettings, ret |-> <<>>, saved |-> FALSE]

SetIdle ==
    setSvc = [mu |-> [writer |-> "", readers |-> {}],
           proc |-> [c \in SetCallers |-> IdleCaller],
           hist |-> {applyDefaults(ZeroSettings)}]

\* The caller c moves on, its record changed as e says.
moves(c, e) == setSvc' = [setSvc EXCEPT !.proc[c] = e]

\* Get, line 63: s.mu.RLock().
GetRLock(c) ==
    /\ c \in Getters
    /\ setSvc.proc[c].pc \in {"idle", "got"}
    /\ readable(setSvc.mu)
    /\ setSvc' = [setSvc EXCEPT !.mu.readers = @ \cup {c},
                          !.proc[c] = [IdleCaller EXCEPT !.pc = "copy", !.at = 1]]
    /\ UNCHANGED <<cfgAuthEnabled, authStore, settings, req>>
    /\ UNCHANGED <<rlvars, stackvars, wsvars, aggvars, mutvars, calcvars, credvars, authvars, cmdvars, ordvars, diskvars, clivars>>

\* Get, line 65: return s.current copies the struct, one field after another.
GetCopy(c) ==
    /\ setSvc.proc[c].pc = "copy"
    /\ LET f == SettingsFields[setSvc.proc[c].at]
           last == setSvc.proc[c].at = Len(SettingsFields)
       IN  moves(c, [setSvc.proc[c] EXCEPT !.copy[f] = settings[f],
                                        !.at = IF last THEN 0 ELSE @ + 1,
                                        !.pc = IF last THEN "runlock" ELSE "copy"])
    /\ UNCHANGED <<cfgAuthEnabled, authStore, settings, req>>
    /\ UNCHANGED <<rlvars, stackvars, wsvars, aggvars, mutvars, calcvars, credvars, authvars, cmdvars, ordvars, diskvars, clivars>>

\* Get, line 64: the deferred s.mu.RUnlock(); the caller has its snapshot.
GetRUnlock(c) ==
    /\ setSvc.proc[c].pc = "runlock"
    /\ setSvc' = [setSvc EXCEPT !.mu.readers = @ \ {c},
                          !.proc[c].pc = "got",
                          !.proc[c].ret = <<setSvc.proc[c].copy>>]
    /\ UNCHANGED <<cfgAuthEnabled, authStore, settings, req>>
    /\ UNCHANGED <<rlvars, stackvars, wsvars, aggvars, mutvars, calcvars, credvars, authvars, cmdvars, ordvars, diskvars, clivars>>

\* Update, line 69: s.mu.Lock(), on behalf of a decoded patch.
UpdateLock(c, patch) ==
    /\ c \in Updaters
    /\ setSvc.proc[c].pc = "idle"
    /\ writable(setSvc.mu)
    /\ setSvc' = [setSvc EXCEPT !.mu.writer = c,
                          !.proc[c] = [IdleCaller EXCEPT !.pc = "fn", !.patch = patch,
                                                         !.at = 1, !.before = settings]]
    /\ UNCHANGED <<cfgAuthEnabled, authStore, settings, req>>
    /\ UNCHANGED <<rlvars, stackvars, wsvars, aggvars, mutvars, calcvars, credvars, authvars, cmdvars, ordvars, diskvars, clivars>>

\* Update, line 71: fn(&s.current), one if statement of the mutator.
UpdateApply(c) ==
    /\ setSvc.proc[c].pc = "fn"
    /\ settings' = applyPatchField(settings, setSvc.proc[c].patch,
                                   SettingsFields[setSvc.proc[c].at])
    /\ LET last == setSvc.proc[c].at = Len(SettingsFields)
       IN  moves(c, [setSvc.proc[c] EXCEPT !.at = IF last THEN 0 ELSE @ + 1,
                                        !.pc = IF last THEN "save" ELSE "fn"])
    /\ UNCHANGED <<cfgAuthEnabled, authStore, req>>
    /\ UNCHANGED <<rlvars, stackvars, wsvars, aggvars, mutvars, calcvars, credvars, authvars, cmdvars, ordvars, diskvars, clivars>>

\* Update, lines 72 and 70: s.save(), which may fail and leaves s.current as
\* the mutator made it, then the deferred s.mu.Unlock().
UpdateSaveUnlock(c) ==
    /\ setSvc.proc[c].pc = "save"
    /\ \E ok \in BOOLEAN :
          setSvc' = [setSvc EXCEPT !.mu.writer = "",
                             !.proc[c].pc = "done",
                             !.proc[c].saved = ok,
                             !.hist = @ \cup {settings}]
    /\ UNCHANGED <<cfgAuthEnabled, authStore, settings, req>>
    /\ UNCHANGED <<rlvars, stackvars, wsvars, aggvars, mutvars, calcvars, credvars, authvars, cmdvars, ordvars, diskvars, clivars>>

NextSet ==
    \/ \E c \in Getters : GetRLock(c)
    \/ \E c \in Getters : GetCopy(c)
    \/ \E c \in Getters : GetRUnlock(c)
    \/ \E c \in Updaters, patch \in ServicePatches : UpdateLock(c, patch)
    \/ \E c \in Updaters : UpdateApply(c)
    \/ \E c \in Updaters : UpdateSaveUnlock(c)

(***************************************************************************)
(*                              PUSH CHANNEL                               *)
(***************************************************************************)

\* handleWS, line 487: make(chan []byte, 32)
sendBuffer == 32

MaxPushes == 2
MaxPending == 1

Peers == {"p1", "p2"}

\* The token query parameter of a websocket request: absent, valid, invalid.
Tokens == {"", "good", "bad"}
TokensOf(p) == IF p = "p1" THEN Tokens ELSE {"", "good"}

\* GetContainers, as far as the payload's container list goes: one entry per
\* listed container, with the short id and the state.
GetContainers(eng) ==
    LET list == containerList(eng)
    IN  [i \in 1..Len(list) |-> [ID |-> shortID(list[i].ID), State |-> list[i].State]]

\* Mutant of WSMessage: a failed fetch empties the whole payload.
WSMessageAllOrNothing(containersOK, composesOK, eng, fs, o1, o2) ==
    [Type |-> "state",
     Containers |-> IF containersOK /\ composesOK THEN GetContainers(eng) ELSE <<>>,
     Composes |-> IF containersOK /\ composesOK
                  THEN << buildStack(fs, Composes[1], containerList(eng), o1),
                          buildStack(fs, Composes[2], containerList(eng), o2) >>
                  ELSE <<>>]

\* models.WSMessage as pushState builds it (lines 524-541): a failed fetch
\* leaves an empty list in its half.
WSMessage(containersOK, composesOK, eng, fs, o1, o2) ==
    [Type |-> "state",
     Containers |-> IF containersOK THEN GetContainers(eng) ELSE <<>>,
     Composes |-> IF composesOK
                  THEN << buildStack(fs, Composes[1], containerList(eng), o1),
                          buildStack(fs, Composes[2], containerList(eng), o2) >>
                  ELSE <<>>]

\* Mutant of wsAuthorized: the token is demanded whatever the settings say.
wsAuthorizedStrict(authEnabled, st, store, token) ==
    token # "" /\ ValidateToken(store, token)

\* handleWS, lines 470-480: whether the upgrade is reached.
wsAuthorized(authEnabled, st, store, token) ==
    IF authEnabled /\ ~st.AuthlessMode
    THEN token # "" /\ ValidateToken(store, token)
    ELSE TRUE

NoConn == [pc |-> "out", token |-> "", status |-> 0, send |-> <<>>, got |-> <<>>]

\* The settings file found at startup: defaults, or a public profile with
\* every switch off, each with authless mode on or off.
WSInit ==
    /\ conns = [p \in Peers |-> NoConn]
    /\ clients = {}
    /\ hubIn = <<>>
    /\ pending = 0
    /\ nPush = 0
    /\ nCast = 0

WSIdle == WSInit

MutSlots == {"m1", "m2"}

NoAct ==
    [pc |-> "idle", kind |-> "", verb |-> "", target |-> "", id |-> <<>>,
     err |-> FALSE, status |-> 0, ver |-> 0]

\* The handlers' variables at rest.
MutIdle ==
    /\ acts = [m \in MutSlots |-> NoAct]
    /\ engHist = <<>>
    /\ spawned = <<>>
    /\ pushLog = <<>>

\* The aggregation's variables at rest.
AggIdle ==
    /\ aggPc = "idle"
    /\ aggList = <<>>
    /\ workers = <<>>
    /\ statsChan = [buf |-> <<>>, closed |-> FALSE]
    /\ wg = 0
    /\ statsMap = {}
    /\ aggResult = [ret |-> "none", val |-> <<>>]
    /\ statsCalls = {}

WSGateInit ==
    /\ cfgAuthEnabled \in BOOLEAN
    /\ authStore = [configured |-> TRUE]
    /\ settings \in { [applyDefaults(ZeroSettings) EXCEPT
                          !.AuthlessMode = a, !.PublicFeatures = f] :
                         a \in BOOLEAN, f \in {DefaultPublicFeatures, AllOff} }
    /\ req = [r \in Reqs |-> IdleReq]

\* The engine holds one running container of the first stack's project.
WSStackInit ==
    /\ engine = [id \in ContainerIDs |->
                   IF id = ListOrder[1] THEN summary(id, "running", <<"web", "app">>)
                   ELSE Absent]
    /\ fsys = [p \in {Composes[1].Path, Composes[2].Path} |->
                 IF p = Composes[1].Path
                 THEN << CF("", {"app"}), Missing, Missing, Missing >>
                 ELSE << Missing, Missing, Missing, Missing >>]
    /\ stacks = NoStacks

\* Mutant of afterRegister: the new subscriber waits for the ticker.
afterRegisterNoPush(n) == n

\* handleWS line 492, go s.pushState(): one more pushState goroutine waits to
\* run.
afterRegister(n) == n + 1

\* handleWS up to the read loop: the auth check, the upgrade, the registration
\* with the hub, go s.pushState(), go client.writePump().
handleWS(p, token) ==
    /\ conns[p].pc = "out"
    /\ token \in TokensOf(p)
    /\ pending < MaxPending
    /\ nPush + pending < MaxPushes
    /\ IF ~wsAuthorized(cfgAuthEnabled, settings, authStore, token)
       THEN /\ conns' = [conns EXCEPT ![p] = [NoConn EXCEPT !.token = token,
                                                             !.status = 401]]
            /\ UNCHANGED <<clients, pending>>
       ELSE /\ conns' = [conns EXCEPT ![p] = [NoConn EXCEPT !.pc = "open",
                                                             !.token = token,
                                                             !.status = 101]]
            /\ clients' = clients \cup {p}
            /\ pending' = afterRegister(pending)
    /\ UNCHANGED <<hubIn, nPush, nCast>>
    /\ UNCHANGED <<rlvars, stackvars, gatevars, aggvars, mutvars, setvars, calcvars, credvars, authvars, cmdvars, ordvars, diskvars, clivars>>

\* Mutant of unregister: the hub closes the channel and keeps the subscriber.
unregisterKeeps(reg, p) == reg

\* The hub's handling of an unregister message: the subscriber leaves the
\* registry.
unregister(reg, p) == reg \ {p}

\* handleWS, the read loop ends: the deferred unregister; the hub drops the
\* subscriber and closes its channel.
wsClose(p) ==
    /\ conns[p].pc = "open"
    /\ conns' = [conns EXCEPT ![p].pc = "out", ![p].send = <<>>]
    /\ clients' = unregister(clients, p)
    /\ UNCHANGED <<hubIn, pending, nPush, nCast>>
    /\ UNCHANGED <<rlvars, stackvars, gatevars, aggvars, mutvars, setvars, calcvars, credvars, authvars, cmdvars, ordvars, diskvars, clivars>>

\* pushState, lines 520-551: both fetches, the message, the non-blocking send
\* on s.hub.broadcast (dropped when the hub is not ready to take it).
pushState ==
    /\ nPush < MaxPushes
    /\ nPush' = nPush + 1
    /\ \E cok \in BOOLEAN, sok \in BOOLEAN,
          o1 \in Orders(parseServiceNames(fsys, Composes[1].Path)),
          o2 \in Orders(parseServiceNames(fsys, Composes[2].Path)) :
          \/ hubIn' = Append(hubIn, WSMessage(cok, sok, engine, fsys, o1, o2))
          \/ UNCHANGED hubIn

\* broadcastLoop, lines 507-518: the 3-second ticker fires.
broadcastLoop ==
    /\ nPush + pending + Len(spawned)
          + Cardinality({x \in MutSlots : acts[x].pc = "returned"}) < MaxPushes
    /\ pushState
    /\ UNCHANGED <<conns, clients, pending, nCast>>
    /\ UNCHANGED <<rlvars, stackvars, gatevars, aggvars, mutvars, setvars, calcvars, credvars, authvars, cmdvars, ordvars, diskvars, clivars>>

\* The goroutine of handleWS line 492, go s.pushState(), runs.
pushOnConnect ==
    /\ pending > 0
    /\ pending' = pending - 1
    /\ pushState
    /\ UNCHANGED <<conns, clients, nCast>>
    /\ UNCHANGED <<rlvars, stackvars, gatevars, aggvars, mutvars, setvars, calcvars, credvars, authvars, cmdvars, ordvars, diskvars, clivars>>

\* Mutant of sendOutcome: a plain channel send, which waits for room.
sendOutcomeBlocking(c) ==
    IF Len(c.send) < sendBuffer THEN "sent" ELSE "blocked"

\* Mutant of sendOutcome: the hub gives up on a subscriber one slot early.
sendOutcomeEarlySkip(c) ==
    IF Len(c.send) < sendBuffer - 1 THEN "sent" ELSE "skipped"

\* The hub's offer of a payload to one subscriber's channel: a send that does
\* not wait, skipped when the buffer is full.
sendOutcome(c) ==
    IF Len(c.send) < sendBuffer THEN "sent" ELSE "skipped"

\* The hub takes one payload and offers it to every registered subscriber; a
\* subscriber whose buffer is full misses it.
hubBroadcast ==
    /\ hubIn # <<>>
    /\ \A p \in clients : sendOutcome(conns[p]) # "blocked"
    /\ hubIn' = Tail(hubIn)
    /\ conns' = [p \in Peers |->
                   IF p \in clients /\ sendOutcome(conns[p]) = "sent"
                   THEN [conns[p] EXCEPT !.send = Append(@, Head(hubIn))]
                   ELSE conns[p]]
    /\ nCast' = nCast + 1
    /\ UNCHANGED <<clients, pending, nPush>>
    /\ UNCHANGED <<rlvars, stackvars, gatevars, aggvars, mutvars, setvars, calcvars, credvars, authvars, cmdvars, ordvars, diskvars, clivars>>

\* writePump: the next payload of the subscriber's channel goes out on its
\* connection.
writePump(p) ==
    /\ conns[p].pc = "open"
    /\ conns[p].send # <<>>
    /\ conns' = [conns EXCEPT ![p].send = Tail(@),
                              ![p].got = <<Head(conns[p].send)>>]
    /\ UNCHANGED <<clients, hubIn, pending, nPush, nCast>>
    /\ UNCHANGED <<rlvars, stackvars, gatevars, aggvars, mutvars, setvars, calcvars, credvars, authvars, cmdvars, ordvars, diskvars, clivars>>

\* The payload of a pushState whose two fetches both failed.
EmptyState == [Type |-> "state", Containers |-> <<>>, Composes |-> <<>>]

\* How many payloads a subscriber's channel holds when the hub is observed:
\* none, one short of the buffer, the whole buffer.
Backlogs == {0, sendBuffer - 1, sendBuffer}

\* The push channel some time into a run: each peer is either not connected
\* or a registered subscriber whose writePump has left a backlog.
HubInit ==
    /\ conns \in [Peers -> {NoConn} \cup
                   { [pc |-> "open", token |-> "", status |-> 101,
                      send |-> [i \in 1..n |-> EmptyState], got |-> <<>>] :
                     n \in Backlogs }]
    /\ clients = {p \in Peers : conns[p].pc = "open"}
    /\ hubIn = <<>>
    /\ pending = 0
    /\ nPush = 0
    /\ nCast = 0

NextHub ==
    \/ broadcastLoop
    \/ hubBroadcast
    \/ \E p \in Peers : writePump(p)
    \/ \E p \in Peers : wsClose(p)

NextWS ==
    \/ \E p \in Peers, token \in Tokens : handleWS(p, token)
    \/ \E p \in Peers : wsClose(p)
    \/ broadcastLoop
    \/ pushOnConnect
    \/ hubBroadcast
    \/ \E p \in Peers : writePump(p)

\* handleUpdateSettings, lines 333-335, while subscribers are connected: a
\* patch that carries authless_mode. Nothing of the hub is touched.
wsSetAuthless(v) ==
    /\ settings.AuthlessMode # v
    /\ settings' = [settings EXCEPT !.AuthlessMode = v]
    /\ UNCHANGED <<cfgAuthEnabled, authStore, req>>
    /\ UNCHANGED <<rlvars, stackvars, wsvars, aggvars, mutvars, setvars, calcvars, credvars, authvars, cmdvars, ordvars, diskvars, clivars>>

NextWSAuth ==
    \/ NextWS
    \/ \E v \in BOOLEAN : wsSetAuthless(v)

(***************************************************************************)
(*                           MUTATING HANDLERS                             *)
(***************************************************************************)

\* The {id} and {name} URL parameters of the model: a short id the engine
\* knows and one it does not, a configured stack name and an unknown one.
ContainerTargets == {"a1b2", "zzzz"}
StackTargets == {"shop", "none"}

ContainerVerbs == {"start", "stop", "restart", "delete"}
ComposeVerbs == {"start", "stop", "restart"}

\* resolveID: the first listed container whose id starts with shortID.
resolveID(eng, short) ==
    LET hits == {i \in 1..Len(ListOrder) :
                   eng[ListOrder[i]].Exists /\ ListOrder[i][1] = short}
    IN  IF hits = {} THEN <<>>
        ELSE << ListOrder[CHOOSE i \in hits : \A j \in hits : i <= j] >>

\* Mutant of containerEffect: the engine call returns before the engine has
\* changed anything.
containerEffectNone(eng, id, verb) == eng

\* The engine after ContainerStart / ContainerStop / ContainerRestart /
\* ContainerRemove(Force) on the container id returned without error.
containerEffect(eng, id, verb) ==
    IF verb = "delete" THEN [eng EXCEPT ![id] = Absent]
    ELSE [eng EXCEPT ![id] =
             summary(id, IF verb = "stop" THEN "exited" ELSE "running",
                     <<eng[id].Project, eng[id].Service>>)]

\* ComposeAction, lines 333-342: the stack configured under name, if any.
findCompose(name) ==
    SelectSeq(Composes, LAMBDA cc : cc.Name = name)

\* The ids no container uses, in listing order.
freeIDs(eng) == SelectSeq(ListOrder, LAMBDA id : ~eng[id].Exists)

\* compose up -d for one service: its container runs afterwards, created under
\* the first free id when there was none.
RECURSIVE composeUp(_, _, _)
composeUp(eng, proj, services) ==
    IF services = {} THEN eng
    ELSE LET svc == CHOOSE x \in services : TRUE
             have == {id \in ContainerIDs :
                        eng[id].Exists /\ eng[id].Project = proj /\ eng[id].Service = svc}
             next == IF have # {}
                     THEN [id \in ContainerIDs |->
                             IF id \in have THEN summary(id, "running", <<proj, svc>>)
                             ELSE eng[id]]
                     ELSE IF freeIDs(eng) = <<>> THEN eng
                     ELSE [eng EXCEPT ![freeIDs(eng)[1]] =
                              summary(freeIDs(eng)[1], "running", <<proj, svc>>)]
         IN  composeUp(next, proj, services \ {svc})

\* The engine after the compose command of ComposeAction, run in cc.Path,
\* exited 0: up -d, down, restart.
composeEffect(eng, fs, cc, verb) ==
    LET proj == resolveProjectName(fs, cc.Path)
    IN  IF verb = "start" THEN composeUp(eng, proj, parseServiceNames(fs, cc.Path))
        ELSE IF verb = "stop"
        THEN [id \in ContainerIDs |->
                IF eng[id].Exists /\ eng[id].Project = proj THEN Absent ELSE eng[id]]
        ELSE eng

\* Mutant of spawnsPush: the state is pushed whether or not the action failed.
spawnsPushAlways(err) == TRUE

\* handleContainerAction lines 368-373 (and the same in handleContainerDelete,
\* handleComposeAction): go s.pushState() is reached only when err == nil.
spawnsPush(err) == ~err

\* One container under the first stack's project runs, another is stopped.
MutStackInit ==
    /\ engine = [id \in ContainerIDs |->
                   IF id = ListOrder[1] THEN summary(id, "running", <<"web", "app">>)
                   ELSE IF id = ListOrder[3] THEN summary(id, "exited", <<"web", "db">>)
                   ELSE Absent]
    /\ fsys = [p \in {Composes[1].Path, Composes[2].Path} |->
                 IF p = Composes[1].Path
                 THEN << CF("", {"app"}), Missing, Missing, Missing >>
                 ELSE << Missing, Missing, Missing, Missing >>]
    /\ stacks = NoStacks

MutInit ==
    /\ acts = [m \in MutSlots |-> NoAct]
    /\ engHist = << [id \in ContainerIDs |->
                       IF id = ListOrder[1] THEN summary(id, "running", <<"web", "app">>)
                       ELSE IF id = ListOrder[3] THEN summary(id, "exited", <<"web", "db">>)
                       ELSE Absent] >>
    /\ spawned = <<>>
    /\ pushLog = <<>>

\* The engine call of a handler has returned to it: err says how, and the
\* engine is what the call left.
returned(m, kind, verb, target, id, err, eng) ==
    /\ acts' = [acts EXCEPT ![m] =
                  [pc |-> "returned", kind |-> kind, verb |-> verb, target |-> target,
                   id |-> id, err |-> err, status |-> 0,
                   ver |-> IF eng = engine THEN Len(engHist) ELSE Len(engHist) + 1]]
    /\ engine' = eng
    /\ engHist' = IF eng = engine THEN engHist ELSE Append(engHist, eng)

\* handleContainerAction / handleContainerDelete up to the return of
\* s.docker.ContainerAction: resolveID, then the engine call.
containerActionCall(m, verb, short) ==
    /\ acts[m].pc = "idle"
    /\ nPush + pending + Len(spawned)
          + Cardinality({x \in MutSlots : acts[x].pc = "returned"}) < MaxPushes
    /\ IF resolveID(engine, short) = <<>>
       THEN returned(m, "container", verb, short, <<>>, TRUE, engine)
       ELSE \/ returned(m, "container", verb, short, resolveID(engine, short), TRUE, engine)
            \/ returned(m, "container", verb, short, resolveID(engine, short), FALSE,
                        containerEffect(engine, resolveID(engine, short)[1], verb))
    /\ UNCHANGED <<fsys, stacks, spawned, pushLog>>
    /\ UNCHANGED <<rlvars, gatevars, wsvars, aggvars, setvars, calcvars, credvars, authvars, cmdvars, ordvars, diskvars, clivars>>

\* handleComposeAction up to the return of s.docker.ComposeAction: the lookup
\* by configured name, then the compose command.
composeActionCall(m, verb, name) ==
    /\ acts[m].pc = "idle"
    /\ nPush + pending + Len(spawned)
          + Cardinality({x \in MutSlots : acts[x].pc = "returned"}) < MaxPushes
    /\ IF findCompose(name) = <<>>
       THEN returned(m, "compose", verb, name, <<>>, TRUE, engine)
       ELSE \/ returned(m, "compose", verb, name, <<>>, TRUE, engine)
            \/ returned(m, "compose", verb, name, <<>>, FALSE,
                        composeEffect(engine, fsys, findCompose(name)[1], verb))
    /\ UNCHANGED <<fsys, stacks, spawned, pushLog>>
    /\ UNCHANGED <<rlvars, gatevars, wsvars, aggvars, setvars, calcvars, credvars, authvars, cmdvars, ordvars, diskvars, clivars>>

\* The rest of the handler: 500 with the error, or go s.pushState() and 204.
actionRespond(m) ==
    /\ acts[m].pc = "returned"
    /\ acts' = [acts EXCEPT ![m].pc = "done",
                            ![m].status = IF acts[m].err THEN 500 ELSE 204]
    /\ spawned' = IF spawnsPush(acts[m].err)
                  THEN Append(spawned, [by |-> m, ver |-> Len(engHist)])
                  ELSE spawned
    /\ UNCHANGED <<engHist, pushLog>>
    /\ UNCHANGED <<rlvars, stackvars, gatevars, wsvars, aggvars, setvars, calcvars, credvars, authvars, cmdvars, ordvars, diskvars, clivars>>

\* One of the goroutines the handlers spawned runs pushState.
pushAfterAction(i) ==
    /\ i \in 1..Len(spawned)
    /\ pushState
    /\ spawned' = [j \in 1..(Len(spawned) - 1) |->
                     IF j < i THEN spawned[j] ELSE spawned[j + 1]]
    /\ pushLog' = Append(pushLog,
                         [by |-> spawned[i].by, spawnVer |-> spawned[i].ver,
                          readVer |-> Len(engHist),
                          sent |-> (hubIn' # hubIn),
                          msg |-> IF hubIn' # hubIn THEN hubIn'[Len(hubIn')]
                                  ELSE [Type |-> "dropped", Containers |-> <<>>,
                                        Composes |-> <<>>]])
    /\ UNCHANGED <<acts, engHist>>
    /\ UNCHANGED <<conns, clients, pending, nCast>>
    /\ UNCHANGED <<rlvars, stackvars, gatevars, aggvars, setvars, calcvars, credvars, authvars, cmdvars, ordvars, diskvars, clivars>>

NextMut ==
    \/ \E m \in MutSlots, verb \in ContainerVerbs, short \in ContainerTargets :
          containerActionCall(m, verb, short)
    \/ \E m \in MutSlots, verb \in ComposeVerbs, name \in StackTargets :
          composeActionCall(m, verb, name)
    \/ \E m \in MutSlots : actionRespond(m)
    \/ \E i \in 1..MaxPushes : pushAfterAction(i)
    \/ broadcastLoop
    \/ hubBroadcast

(***************************************************************************)
(*                            STATS AGGREGATION                            *)
(***************************************************************************)

\* container.StatsResponse, the fields calcCPUPercent and calcMemory read:
\* CPUStats / PreCPUStats total and system usage, OnlineCPUs, the length of
\* PercpuUsage, MemoryStats usage, Stats["cache"] (0 when absent) and limit.
StatsResponse(total, preTotal, system, preSystem, online, percpu, usage, cache, limit) ==
    [TotalUsage |-> total, PreTotalUsage |-> preTotal,
     SystemUsage |-> system, PreSystemUsage |-> preSystem,
     OnlineCPUs |-> online, PercpuLen |-> percpu,
     Usage |-> usage, Cache |-> cache, Limit |-> limit]

\* What the engine's stats endpoint reports for each container.
EngineStats ==
    [id \in ContainerIDs |->
        IF id = ListOrder[1] THEN StatsResponse(400, 200, 2000, 1000, 2, 0, 500, 100, 1000)
        ELSE IF id = ListOrder[2] THEN StatsResponse(300, 200, 3000, 1000, 0, 4, 300, 0, 2000)
        ELSE StatsResponse(900, 100, 4100, 100, 1, 1, 64, 64, 128)]

\* Mutant of calcCPUPercent: only the system delta is tested.
calcCPUPercentUnguarded(stats) ==
    LET cpuDelta == stats.TotalUsage - stats.PreTotalUsage
        sysDelta == stats.SystemUsage - stats.PreSystemUsage
        numCPU == IF stats.OnlineCPUs = 0 THEN stats.PercpuLen ELSE stats.OnlineCPUs
    IN  IF sysDelta > 0
        THEN (2 * cpuDelta * numCPU * 10000 + sysDelta) \div (2 * sysDelta)
        ELSE 0

\* calcCPUPercent, in hundredths of a percent: (cpuDelta / sysDelta) * numCPU *
\* 100 rounded to two decimals (math.Round: half away from zero), 0 unless
\* both deltas are positive.
calcCPUPercent(stats) ==
    LET cpuDelta == stats.TotalUsage - stats.PreTotalUsage
        sysDelta == stats.SystemUsage - stats.PreSystemUsage
        numCPU == IF stats.OnlineCPUs = 0 THEN stats.PercpuLen ELSE stats.OnlineCPUs
    IN  IF sysDelta > 0 /\ cpuDelta > 0
        THEN (2 * cpuDelta * numCPU * 10000 + sysDelta) \div (2 * sysDelta)
        ELSE 0

\* calcMemory: usage minus the page cache when usage is larger, else 0; the
\* limit as reported.
calcMemory(stats) ==
    [used |-> IF stats.Usage > stats.Cache THEN stats.Usage - stats.Cache ELSE 0,
     limit |-> stats.Limit]

\* The figures of a decoded stats response in the model: cumulative CPU and
\* system times, the CPU counts, memory usage, page cache and limit.
CPUTimes == {0, 1, 3}
SystemTimes == {0, 3, 7}
CPUCounts == {0, 2}
MemoryFigures == {0, 64, 100}

StatsInputs ==
    { StatsResponse(t, pt, sy, psy, on, per, u, c, 128) :
        t \in CPUTimes, pt \in CPUTimes, sy \in SystemTimes, psy \in SystemTimes,
        on \in CPUCounts, per \in {0, 4}, u \in MemoryFigures, c \in MemoryFigures }

CalcIdle ==
    /\ calcIn = EngineStats[ListOrder[1]]
    /\ calcOut = <<>>

CalcInit ==
    /\ calcIn \in StatsInputs
    /\ calcOut = <<>>

\* fetchStats, lines 188-190, on the decoded response.
computeSample ==
    /\ calcOut = <<>>
    /\ calcOut' = << [cpu |-> calcCPUPercent(calcIn),
                      mem |-> calcMemory(calcIn).used,
                      memLim |-> calcMemory(calcIn).limit] >>
    /\ UNCHANGED calcIn
    /\ UNCHANGED <<rlvars, stackvars, gatevars, wsvars, aggvars, mutvars, setvars, credvars, authvars, cmdvars, ordvars, diskvars, clivars>>

\* containerStats{id: id}
zeroSample(id) == [id |-> id, cpu |-> 0, mem |-> 0, memLim |-> 0]

\* The ways a stats call ends: ContainerStats fails (or its context expires),
\* reading the body fails, the body does not unmarshal, or it decodes.
StatsOutcomes == {"error", "read error", "bad body", "ok"}

\* Mutant of fetchStats: the sample is computed whatever the call returned.
fetchStatsIgnoringErrors(id, outcome) ==
    [id |-> id, cpu |-> calcCPUPercent(EngineStats[id]),
     mem |-> calcMemory(EngineStats[id]).used,
     memLim |-> calcMemory(EngineStats[id]).limit]

\* fetchStats(ctx, id) and the containerStats built from it (lines 82-83): the
\* named results stay zero on every early return.
fetchStats(id, outcome) ==
    IF outcome # "ok" THEN zeroSample(id)
    ELSE [id |-> id, cpu |-> calcCPUPercent(EngineStats[id]),
          mem |-> calcMemory(EngineStats[id]).used,
          memLim |-> calcMemory(EngineStats[id]).limit]

\* Mutant of isRunning: every listed container is sampled.
isRunningAlways(c) == TRUE

\* GetContainers, line 85: c.State == "running"
isRunning(c) == c.State = "running"

\* statsMap[id], the zero containerStats when the key is absent.
statsLookup(map, id) ==
    IF \E s \in map : s.id = id THEN CHOOSE s \in map : s.id = id
    ELSE [id |-> <<"", "">>, cpu |-> 0, mem |-> 0, memLim |-> 0]

\* GetContainers, lines 97-129: one models.Container per list entry.
buildResult(list, map) ==
    [i \in 1..Len(list) |->
        [ID |-> shortID(list[i].ID), FullID |-> list[i].ID,
         Status |-> list[i].Status, State |-> list[i].State,
         CPU |-> statsLookup(map, list[i].ID).cpu,
         Memory |-> statsLookup(map, list[i].ID).mem,
         MemoryLimit |-> statsLookup(map, list[i].ID).memLim,
         Compose |-> list[i].Project]]

\* The engine at the start of a pass: each container absent, running or exited.
AggEngineInit ==
    /\ engine \in { e \in [ContainerIDs ->
                             {Absent} \cup { summary(id, st, <<"web", "app">>) :
                                               id \in ContainerIDs, st \in ContainerStates }] :
                      \A id \in ContainerIDs : e[id].Exists => e[id].ID = id }
    /\ fsys = [p \in {Composes[1].Path, Composes[2].Path} |->
                 << Missing, Missing, Missing, Missing >>]
    /\ stacks = NoStacks

\* GetContainers, lines 66-91: the listing (or its error), the channel of
\* capacity len(list), one goroutine per entry after wg.Add(1), the closer.
listAndFanOut ==
    /\ aggPc = "idle"
    /\ \/ /\ aggPc' = "done"
          /\ aggResult' = [ret |-> "err", val |-> <<>>]
          /\ UNCHANGED <<aggList, workers, wg>>
       \/ /\ aggPc' = "collect"
          /\ aggList' = containerList(engine)
          /\ workers' = [i \in 1..Len(containerList(engine)) |->
                           [pc |-> "start", outcome |-> "none",
                            sample |-> zeroSample(containerList(engine)[i].ID)]]
          /\ wg' = Len(containerList(engine))
          /\ UNCHANGED aggResult
    /\ UNCHANGED <<statsChan, statsMap, statsCalls>>
    /\ UNCHANGED <<rlvars, stackvars, gatevars, wsvars, mutvars, setvars, calcvars, credvars, authvars, cmdvars, ordvars, diskvars, clivars>>

\* The goroutine of entry i, a running container: m.fetchStats(ctx, id).
statsCall(i, outcome) ==
    /\ aggPc = "collect"
    /\ i \in 1..Len(workers)
    /\ workers[i].pc = "start"
    /\ isRunning(aggList[i])
    /\ statsCalls' = statsCalls \cup {aggList[i].ID}
    /\ workers' = [workers EXCEPT ![i] =
                     [pc |-> "send", outcome |-> outcome,
                      sample |-> fetchStats(aggList[i].ID, outcome)]]
    /\ UNCHANGED <<aggPc, aggList, statsChan, wg, statsMap, aggResult>>
    /\ UNCHANGED <<rlvars, stackvars, gatevars, wsvars, mutvars, setvars, calcvars, credvars, authvars, cmdvars, ordvars, diskvars, clivars>>

\* Mutant of chanCap: the channel is made without a buffer.
chanCapUnbuffered(list) == 0

\* GetContainers, line 72: make(chan containerStats, len(list)).
chanCap(list) == Len(list)

\* The goroutine of entry i sends its containerStats and returns (wg.Done): at
\* once with the zero sample when the container does not run, after
\* fetchStats otherwise.
statsSend(i) ==
    /\ aggPc = "collect"
    /\ i \in 1..Len(workers)
    /\ \/ workers[i].pc = "send"
       \/ workers[i].pc = "start" /\ ~isRunning(aggList[i])
    /\ Len(statsChan.buf) < chanCap(aggList)
    /\ ~statsChan.closed
    /\ statsChan' = [statsChan EXCEPT !.buf = Append(@, workers[i].sample)]
    /\ workers' = [workers EXCEPT ![i].pc = "returned"]
    /\ wg' = wg - 1
    /\ UNCHANGED <<aggPc, aggList, statsMap, aggResult, statsCalls>>
    /\ UNCHANGED <<rlvars, stackvars, gatevars, wsvars, mutvars, setvars, calcvars, credvars, authvars, cmdvars, ordvars, diskvars, clivars>>

\* The closer goroutine, lines 88-91: wg.Wait() returned, close(statsChan).
closeStatsChan ==
    /\ aggPc = "collect"
    /\ wg = 0
    /\ ~statsChan.closed
    /\ statsChan' = [statsChan EXCEPT !.closed = TRUE]
    /\ UNCHANGED <<aggPc, aggList, workers, wg, statsMap, aggResult, statsCalls>>
    /\ UNCHANGED <<rlvars, stackvars, gatevars, wsvars, mutvars, setvars, calcvars, credvars, authvars, cmdvars, ordvars, diskvars, clivars>>

\* for s := range statsChan { statsMap[s.id] = s }: one receive.
collectSample ==
    /\ aggPc = "collect"
    /\ statsChan.buf # <<>>
    /\ statsChan' = [statsChan EXCEPT !.buf = Tail(@)]
    /\ statsMap' = {s \in statsMap : s.id # Head(statsChan.buf).id}
                      \cup {Head(statsChan.buf)}
    /\ UNCHANGED <<aggPc, aggList, workers, wg, aggResult, statsCalls>>
    /\ UNCHANGED <<rlvars, stackvars, gatevars, wsvars, mutvars, setvars, calcvars, credvars, authvars, cmdvars, ordvars, diskvars, clivars>>

\* The range loop ends on the closed, drained channel; the result is built and
\* returned.
returnContainers ==
    /\ aggPc = "collect"
    /\ statsChan.buf = <<>>
    /\ statsChan.closed
    /\ aggPc' = "done"
    /\ aggResult' = [ret |-> "ok", val |-> buildResult(aggList, statsMap)]
    /\ UNCHANGED <<aggList, workers, statsChan, wg, statsMap, statsCalls>>
    /\ UNCHANGED <<rlvars, stackvars, gatevars, wsvars, mutvars, setvars, calcvars, credvars, authvars, cmdvars, ordvars, diskvars, clivars>>

NextAgg ==
    \/ listAndFanOut
    \/ \E i \in 1..Cardinality(ContainerIDs), outcome \in StatsOutcomes :
          statsCall(i, outcome)
    \/ \E i \in 1..Cardinality(ContainerIDs) : statsSend(i)
    \/ closeStatsChan
    \/ collectSample
    \/ returnContainers

(***************************************************************************)
(*                              RATE LIMITER                               *)
(***************************************************************************)

\* rateLimitMax = 5
rateLimitMax == 5

\* rateLimitWindow = time.Minute, in seconds
rateLimitWindow == 60

\* Bounds of the rate limiter model.
MaxTime == 90
ClockStep == 30
MaxCalls == 7

Origins == {"ip1", "ip2"}
Callers == {"h1", "h2"}

\* rl.buckets[ip]: a missing key reads as the nil slice.
bucketOf(b, ip) == IF ip \in DOMAIN b THEN b[ip] ELSE <<>>

\* Mutant of pruned: keeps a timestamp that is exactly one window old
\* (!t.Before(cutoff) instead of t.After(cutoff)).
prunedInclusive(times, cutoff) ==
    SelectSeq(times, LAMBDA t : t >= cutoff)

\* The slide-window loop of allow() and gc(): valid := times[:0];
\* for t in times { if t.After(cutoff) { valid = append(valid, t) } }
pruned(times, cutoff) ==
    SelectSeq(times, LAMBDA t : t > cutoff)

\* Mutant of allowDecision: off-by-one ceiling (len(valid) > rateLimitMax).
allowDecisionOffByOne(valid) ==
    ~(Len(valid) > rateLimitMax)

\* if len(valid) >= rateLimitMax { return false }; ... return true
allowDecision(valid) ==
    ~(Len(valid) >= rateLimitMax)

\* Insert t into a sorted sequence (canonical form of the history).
RECURSIVE SortedInsert(_, _)
SortedInsert(s, t) ==
    IF s = <<>> THEN <<t>>
    ELSE IF t <= Head(s) THEN <<t>> \o s
    ELSE <<Head(s)>> \o SortedInsert(Tail(s), t)

RLInit ==
    /\ now = 0
    /\ buckets = [ip \in {} |-> <<>>]
    /\ thr = [h \in Callers |-> [pc |-> "idle", ip |-> "", now |-> 0]]
    /\ gcst = [pc |-> "wait", cutoff |-> 0]
    /\ nCalls = 0
    /\ admitted = [ip \in Origins |-> <<>>]
    /\ rejected = [ip \in Origins |-> <<>>]

\* time passes
Tick ==
    /\ now + ClockStep <= MaxTime
    /\ now' = now + ClockStep
    /\ UNCHANGED <<buckets, thr, gcst, nCalls, admitted, rejected>>
    /\ UNCHANGED <<stackvars, gatevars, wsvars, aggvars, mutvars, setvars, calcvars, credvars, authvars, cmdvars, ordvars, diskvars, clivars>>

\* The critical section of allow(), lines 34-47, on the map b for origin ip
\* with the caller's clock reading n: the map it leaves and the value returned.
allowCritical(b, ip, n) ==
    LET valid == pruned(bucketOf(b, ip), n - rateLimitWindow)
        keys == DOMAIN b \cup {ip}
    IN  IF ~allowDecision(valid)
        THEN [b |-> [k \in keys |-> IF k = ip THEN valid ELSE b[k]], ok |-> FALSE]
        ELSE [b |-> [k \in keys |-> IF k = ip THEN Append(valid, n) ELSE b[k]],
              ok |-> TRUE]

\* Mutant of gcPass: a bucket is deleted as soon as one of its timestamps has
\* left the window.
gcPassDropping(b, cutoff) ==
    LET keep == {ip \in DOMAIN b : pruned(b[ip], cutoff) = b[ip]}
    IN  [ip \in keep |-> b[ip]]

\* One pass of gc(), lines 68-80, on the map b with the cutoff read before it.
gcPass(b, cutoff) ==
    LET keep == {ip \in DOMAIN b : pruned(b[ip], cutoff) # <<>>}
    IN  [ip \in keep |-> pruned(b[ip], cutoff)]

\* The histories after a call of origin ip with clock reading n returned ok.
Record(ip, n, ok) ==
    /\ admitted' = IF ok THEN [admitted EXCEPT ![ip] = SortedInsert(@, n)] ELSE admitted
    /\ rejected' = IF ok THEN rejected ELSE [rejected EXCEPT ![ip] = SortedInsert(@, n)]

\* allow(ip), lines 28-48, run from its clock read to its return with no other
\* goroutine in between.
allow(ip) ==
    /\ nCalls < MaxCalls
    /\ nCalls' = nCalls + 1
    /\ LET r == allowCritical(buckets, ip, now)
       IN  /\ buckets' = r.b
           /\ Record(ip, now, r.ok)
    /\ UNCHANGED <<now, thr, gcst>>
    /\ UNCHANGED <<stackvars, gatevars, wsvars, aggvars, mutvars, setvars, calcvars, credvars, authvars, cmdvars, ordvars, diskvars, clivars>>

\* One iteration of gc(), lines 65-82, run with no other goroutine in between.
\* The 5-minute period of the ticker is not modelled: a pass may run at any time.
gc ==
    /\ buckets' = gcPass(buckets, now - rateLimitWindow)
    /\ UNCHANGED <<now, thr, gcst, nCalls, admitted, rejected>>
    /\ UNCHANGED <<stackvars, gatevars, wsvars, aggvars, mutvars, setvars, calcvars, credvars, authvars, cmdvars, ordvars, diskvars, clivars>>

\* allow(ip), lines 29-30: now := time.Now(); cutoff := now.Add(-rateLimitWindow),
\* read before the mutex is taken.
allowEnter(h, ip) ==
    /\ thr[h].pc = "idle"
    /\ nCalls < MaxCalls
    /\ thr' = [thr EXCEPT ![h] = [pc |-> "lock", ip |-> ip, now |-> now]]
    /\ nCalls' = nCalls + 1
    /\ UNCHANGED <<now, buckets, gcst, admitted, rejected>>
    /\ UNCHANGED <<stackvars, gatevars, wsvars, aggvars, mutvars, setvars, calcvars, credvars, authvars, cmdvars, ordvars, diskvars, clivars>>

\* allow(ip), lines 31-47: the critical section under rl.mu.
allowLocked(h) ==
    /\ thr[h].pc = "lock"
    /\ LET r == allowCritical(buckets, thr[h].ip, thr[h].now)
       IN  /\ buckets' = r.b
           /\ Record(thr[h].ip, thr[h].now, r.ok)
    /\ thr' = [thr EXCEPT ![h] = [pc |-> "idle", ip |-> "", now |-> 0]]
    /\ UNCHANGED <<now, gcst, nCalls>>
    /\ UNCHANGED <<stackvars, gatevars, wsvars, aggvars, mutvars, setvars, calcvars, credvars, authvars, cmdvars, ordvars, diskvars, clivars>>

\* gc(), line 66: the ticker fired; cutoff := time.Now().Add(-rateLimitWindow),
\* read before the mutex is taken.
gcEnter ==
    /\ gcst.pc = "wait"
    /\ gcst' = [pc |-> "lock", cutoff |-> now - rateLimitWindow]
    /\ UNCHANGED <<now, buckets, thr, nCalls, admitted, rejected>>
    /\ UNCHANGED <<stackvars, gatevars, wsvars, aggvars, mutvars, setvars, calcvars, credvars, authvars, cmdvars, ordvars, diskvars, clivars>>

\* gc(), lines 67-81: one pass over the map under rl.mu.
gcLocked ==
    /\ gcst.pc = "lock"
    /\ buckets' = gcPass(buckets, gcst.cutoff)
    /\ gcst' = [pc |-> "wait", cutoff |-> 0]
    /\ UNCHANGED <<now, thr, nCalls, admitted, rejected>>
    /\ UNCHANGED <<stackvars, gatevars, wsvars, aggvars, mutvars, setvars, calcvars, credvars, authvars, cmdvars, ordvars, diskvars, clivars>>

NextRL ==
    \/ Tick
    \/ \E ip \in Origins : allow(ip)
    \/ gc

NextRLGc ==
    \/ Tick
    \/ \E ip \in Origins : allow(ip)
    \/ gcEnter
    \/ gcLocked

NextRLConc ==
    \/ Tick
    \/ \E h \in Callers, ip \in Origins : allowEnter(h, ip)
    \/ \E h \in Callers : allowLocked(h)
    \/ gcEnter
    \/ gcLocked

(***************************************************************************)
(*                          CREDENTIAL ENDPOINTS                           *)
(***************************************************************************)

CredSlots == {"c1"}

\* r.With(s.rl.middleware).Post(...), lines 85-86.
CredRoutes == {"POST /api/auth/setup", "POST /api/auth/login"}

\* The password of a request body: one that passes ValidatePasswordStrength
\* and is the one the store's hash was made from, and one that does neither.
Passwords == {"good", "bad"}

IdleCred ==
    [pc |-> "idle", route |-> "", ip |-> "", password |-> "", status |-> 0,
     checked |-> FALSE]

CredIdle == credReq = [c \in CredSlots |-> IdleCred]

\* A request reaches the router.
credArrive(c, route, ip, pw) ==
    /\ credReq[c].pc \in {"idle", "done"}
    /\ nCalls + Cardinality({x \in CredSlots : credReq[x].pc = "limit"}) < MaxCalls
    /\ credReq' = [credReq EXCEPT ![c] = [IdleCred EXCEPT !.pc = "limit", !.route = route,
                                                          !.ip = ip, !.password = pw]]
    /\ UNCHANGED <<rlvars, stackvars, gatevars, wsvars, aggvars, mutvars, setvars, calcvars, authvars, cmdvars, ordvars, diskvars, clivars>>

\* Mutant of afterLimit: the middleware answers 429 and goes on to the handler.
afterLimitFallsThrough(ok) == "handler"

\* rateLimiter.middleware, lines 53-57: return after the 429, else next.
afterLimit(ok) == IF ok THEN "handler" ELSE "done"

\* rateLimiter.middleware: rl.allow(clientIP(r)), then 429 or the handler.
rlMiddleware(c) ==
    /\ credReq[c].pc = "limit"
    /\ nCalls' = nCalls + 1
    /\ LET r == allowCritical(buckets, credReq[c].ip, now)
       IN  /\ buckets' = r.b
           /\ Record(credReq[c].ip, now, r.ok)
           /\ credReq' = [credReq EXCEPT ![c].pc = afterLimit(r.ok),
                                         ![c].status = IF r.ok THEN 0 ELSE 429]
    /\ UNCHANGED <<now, thr, gcst>>
    /\ UNCHANGED <<stackvars, gatevars, wsvars, aggvars, mutvars, setvars, calcvars, authvars, cmdvars, ordvars, diskvars, clivars>>

\* handleSetup with auth.Service.Setup: 400 when already configured or when the
\* password is too weak, else the store is written and a token returned.
handleSetup(c) ==
    /\ credReq[c].pc = "handler"
    /\ credReq[c].route = "POST /api/auth/setup"
    /\ IF authStore.configured \/ credReq[c].password # "good"
       THEN /\ credReq' = [credReq EXCEPT ![c].pc = "done", ![c].status = 400,
                                          ![c].checked = TRUE]
            /\ UNCHANGED authStore
       ELSE /\ credReq' = [credReq EXCEPT ![c].pc = "done", ![c].status = 200,
                                          ![c].checked = TRUE]
            /\ authStore' = [authStore EXCEPT !.configured = TRUE]
    /\ UNCHANGED <<cfgAuthEnabled, settings, req>>
    /\ UNCHANGED <<rlvars, stackvars, wsvars, aggvars, mutvars, setvars, calcvars, authvars, cmdvars, ordvars, diskvars, clivars>>

\* handleLogin with auth.Service.Login: 401 when not configured or when the
\* password does not match the hash, else a token.
handleLogin(c) ==
    /\ credReq[c].pc = "handler"
    /\ credReq[c].route = "POST /api/auth/login"
    /\ credReq' = [credReq EXCEPT ![c].pc = "done", ![c].checked = TRUE,
                                  ![c].status = IF authStore.configured
                                                   /\ credReq[c].password = "good"
                                                THEN 200 ELSE 401]
    /\ UNCHANGED <<rlvars, stackvars, gatevars, wsvars, aggvars, mutvars, setvars, calcvars, authvars, cmdvars, ordvars, diskvars, clivars>>

\* time passes while requests are served
credTick ==
    /\ now + ClockStep <= MaxTime
    /\ now' = now + ClockStep
    /\ UNCHANGED <<buckets, thr, gcst, nCalls, admitted, rejected>>
    /\ UNCHANGED <<stackvars, gatevars, wsvars, aggvars, mutvars, setvars, calcvars, credvars, authvars, cmdvars, ordvars, diskvars, clivars>>

NextCred ==
    \/ \E c \in CredSlots, route \in CredRoutes, ip \in Origins, pw \in Passwords :
          credArrive(c, route, ip, pw)
    \/ \E c \in CredSlots : rlMiddleware(c)
    \/ \E c \in CredSlots : handleSetup(c)
    \/ \E c \in CredSlots : handleLogin(c)
    \/ credTick

(***************************************************************************)
(*                              AUTH SERVICE                               *)
(***************************************************************************)

\* The requests that are inside auth.Service at the same time.
AuthCallers == {"a1", "a2"}

\* generateSecret is called at most this many times.
MaxSecrets == 3

\* Request passwords: two that pass ValidatePasswordStrength, one that fails.
AuthPasswords == {"pw1", "pw2", "weak"}

\* ValidatePasswordStrength(password, strict) == nil
ValidatePasswordStrength(password) == password # "weak"

\* bcrypt.GenerateFromPassword and CompareHashAndPassword: a hash matches the
\* password it was made from and no other.
hashOf(password) == <<"bcrypt", password>>
compareHash(hash, password) == hash = hashOf(password)

\* The value of CTOPIA_JWT_SECRET when it is set.
EnvSecret == <<"env", 0>>

\* generateSecret: 32 random bytes, the n-th one produced.
generateSecret(n) == <<"gen", n>>

\* jwtSecret, lines 316-321.
jwtSecret(svc) ==
    IF svc.env # <<>> THEN svc.env[1] ELSE svc.store[1].JWTSecret

\* issueToken, lines 301-312: claims signed with jwtSecret().
issueToken(svc) == [key |-> jwtSecret(svc)]

\* ValidateToken, lines 281-299, for a token inside its 30 days.
ServiceValidateToken(svc, token) ==
    svc.store # <<>> /\ token.key = jwtSecret(svc)

\* IsSetupComplete, lines 153-155.
IsSetupComplete(svc) == svc.store # <<>> /\ svc.store[1].SetupComplete

IdleAuthCall ==
    [pc |-> "idle", op |-> "", hash |-> <<>>, secret |-> <<>>, token |-> <<>>,
     err |-> "", seen |-> {}]

\* A call returns err.
authFail(a, op, err) ==
    authCall' = [authCall EXCEPT ![a] = [IdleAuthCall EXCEPT !.pc = "done", !.op = op,
                                                             !.err = err]]

\* A call has passed its checks and holds a new hash and a new secret.
authHold(a, op, password) ==
    /\ authSvc.gen < MaxSecrets
    /\ authCall' = [authCall EXCEPT ![a] =
                      [IdleAuthCall EXCEPT !.pc = "write", !.op = op,
                                           !.hash = hashOf(password),
                                           !.secret = generateSecret(authSvc.gen + 1)]]
    /\ authSvc' = [authSvc EXCEPT !.gen = @ + 1]

\* Setup, lines 204-220: the checks, the hash and the secret.
setupEnter(a, password) ==
    /\ authCall[a].pc \in {"idle", "done"}
    /\ IF IsSetupComplete(authSvc)
       THEN authFail(a, "setup", "already configured") /\ UNCHANGED authSvc
       ELSE IF ~ValidatePasswordStrength(password)
       THEN authFail(a, "setup", "weak password") /\ UNCHANGED authSvc
       ELSE authHold(a, "setup", password)
    /\ UNCHANGED authHist
    /\ UNCHANGED <<rlvars, stackvars, gatevars, wsvars, aggvars, mutvars, setvars, calcvars, credvars, cmdvars, ordvars, diskvars, clivars>>

\* Setup, lines 222-230: s.store = &authStore{...} and save.
setupWrite(a) ==
    /\ authCall[a].pc = "write" /\ authCall[a].op = "setup"
    /\ authSvc' = [authSvc EXCEPT !.store =
                      <<[PasswordHash |-> authCall[a].hash,
                         JWTSecret |-> authCall[a].secret,
                         SetupComplete |-> TRUE]>>]
    /\ authCall' = [authCall EXCEPT ![a].pc = "issue", ![a].seen = authHist.issued]
    /\ UNCHANGED authHist
    /\ UNCHANGED <<rlvars, stackvars, gatevars, wsvars, aggvars, mutvars, setvars, calcvars, credvars, cmdvars, ordvars, diskvars, clivars>>

\* ChangePassword, lines 236-257: the checks, the hash and the secret.
changeEnter(a, current, newPwd) ==
    /\ authCall[a].pc \in {"idle", "done"}
    /\ IF ~IsSetupComplete(authSvc)
       THEN authFail(a, "change", "not configured") /\ UNCHANGED authSvc
       ELSE IF ~compareHash(authSvc.store[1].PasswordHash, current)
       THEN authFail(a, "change", "invalid current password") /\ UNCHANGED authSvc
       ELSE IF ~ValidatePasswordStrength(newPwd)
       THEN authFail(a, "change", "weak password") /\ UNCHANGED authSvc
       ELSE authHold(a, "change", newPwd)
    /\ UNCHANGED authHist
    /\ UNCHANGED <<rlvars, stackvars, gatevars, wsvars, aggvars, mutvars, setvars, calcvars, credvars, cmdvars, ordvars, diskvars, clivars>>

\* ChangePassword, lines 259-264: the two fields of s.store and save.
changeWrite(a) ==
    /\ authCall[a].pc = "write" /\ authCall[a].op = "change"
    /\ authSvc' = [authSvc EXCEPT !.store =
                      <<[authSvc.store[1] EXCEPT !.PasswordHash = authCall[a].hash,
                                                 !.JWTSecret = authCall[a].secret]>>]
    /\ authCall' = [authCall EXCEPT ![a].pc = "issue", ![a].seen = authHist.issued]
    /\ UNCHANGED authHist
    /\ UNCHANGED <<rlvars, stackvars, gatevars, wsvars, aggvars, mutvars, setvars, calcvars, credvars, cmdvars, ordvars, diskvars, clivars>>

\* Setup line 232, ChangePassword line 266: return s.issueToken().
authIssue(a) ==
    /\ authCall[a].pc = "issue"
    /\ LET token == issueToken(authSvc)
       IN  /\ authCall' = [authCall EXCEPT ![a].pc = "done", ![a].token = <<token>>]
           /\ authHist' = [issued |-> authHist.issued \cup {token},
                           setups |-> authHist.setups
                                         + IF authCall[a].op = "setup" THEN 1 ELSE 0]
    /\ UNCHANGED authSvc
    /\ UNCHANGED <<rlvars, stackvars, gatevars, wsvars, aggvars, mutvars, setvars, calcvars, credvars, cmdvars, ordvars, diskvars, clivars>>

\* Login, lines 269-279.
Login(a, password) ==
    /\ authCall[a].pc \in {"idle", "done"}
    /\ IF ~IsSetupComplete(authSvc)
       THEN authFail(a, "login", "not configured") /\ UNCHANGED authHist
       ELSE IF ~compareHash(authSvc.store[1].PasswordHash, password)
       THEN authFail(a, "login", "invalid password") /\ UNCHANGED authHist
       ELSE LET token == issueToken(authSvc)
            IN  /\ authCall' = [authCall EXCEPT ![a] =
                                  [IdleAuthCall EXCEPT !.pc = "done", !.op = "login",
                                                       !.token = <<token>>]]
                /\ authHist' = [authHist EXCEPT !.issued = @ \cup {token}]
    /\ UNCHANGED authSvc
    /\ UNCHANGED <<rlvars, stackvars, gatevars, wsvars, aggvars, mutvars, setvars, calcvars, credvars, cmdvars, ordvars, diskvars, clivars>>

NextAuth ==
    \/ \E a \in AuthCallers, password \in AuthPasswords : setupEnter(a, password)
    \/ \E a \in AuthCallers : setupWrite(a)
    \/ \E a \in AuthCallers, current \in AuthPasswords, newPwd \in AuthPasswords :
          changeEnter(a, current, newPwd)
    \/ \E a \in AuthCallers : changeWrite(a)
    \/ \E a \in AuthCallers : authIssue(a)
    \/ \E a \in AuthCallers, password \in AuthPasswords : Login(a, password)

\* The auth service at rest.
AuthIdle ==
    /\ authSvc = [store |-> <<>>, env |-> <<>>, gen |-> 0]
    /\ authCall = [a \in AuthCallers |-> IdleAuthCall]
    /\ authHist = [issued |-> {}, setups |-> 0]

\* NewService, lines 142-151: auth.json is absent and s.store stays nil; the
\* environment holds CTOPIA_JWT_SECRET or not.
AuthInit ==
    /\ authSvc \in [store : {<<>>}, env : {<<>>, <<EnvSecret>>}, gen : {0}]
    /\ authCall = [a \in AuthCallers |-> IdleAuthCall]
    /\ authHist = [issued |-> {}, setups |-> 0]

(***************************************************************************)
(*                            COMPOSE COMMAND                              *)
(***************************************************************************)

\* detectComposeBinary, lines 434-446: the v2 plugin or the v1 binary.
ComposeBinaries == { <<"docker", "compose">>, <<"docker-compose">> }

\* The name and action arguments of the calls: the declared stacks and an
\* undeclared one; the three verbs of the routes and one that is none of them.
CmdNames == {"shop", "monitoring", "none"}
CmdActions == ComposeVerbs \cup {"pause"}

\* What the command does: exit status and combined output.
ExitCodes == {0, 1}
Outputs == {"", "no such service"}

\* Mutant of composeArgs: down never gets the volume flag.
composeArgsNoVolumeFlag(cmds, action, removeVolumes) ==
    CASE action = "start" -> << Tail(cmds) \o <<"up", "-d">> >>
      [] action = "stop" -> << Tail(cmds) \o <<"down">> >>
      [] action = "restart" -> << Tail(cmds) \o <<"restart">> >>
      [] OTHER -> <<>>

\* ComposeAction, lines 344-357: the argument list after the binary, none for
\* an unknown action.
composeArgs(cmds, action, removeVolumes) ==
    CASE action = "start" -> << Tail(cmds) \o <<"up", "-d">> >>
      [] action = "stop" ->
            << Tail(cmds) \o <<"down">> \o (IF removeVolumes THEN <<"-v">> ELSE <<>>) >>
      [] action = "restart" -> << Tail(cmds) \o <<"restart">> >>
      [] OTHER -> <<>>

\* ComposeAction, lines 332-366: the command it runs, if any, and the error it
\* returns (<<>> is nil) when the command exits with exit and prints out.
ComposeAction(cmds, name, action, removeVolumes, exit, out) ==
    IF findCompose(name) = <<>>
    THEN [cmd |-> <<>>, err |-> <<"compose stack not found", name>>]
    ELSE IF composeArgs(cmds, action, removeVolumes) = <<>>
    THEN [cmd |-> <<>>, err |-> <<"unknown compose action", action>>]
    ELSE [cmd |-> << [bin |-> Head(cmds),
                      args |-> composeArgs(cmds, action, removeVolumes)[1],
                      dir |-> findCompose(name)[1].Path] >>,
          err |-> IF exit # 0 THEN <<"compose", action, out>> ELSE <<>>]

NoCall ==
    [name |-> "", action |-> "", removeVolumes |-> FALSE, exit |-> 0, out |-> "",
     cmd |-> <<>>, err |-> <<>>, status |-> 0]

\* handleComposeAction, lines 400-412: the toggle is read when the request is
\* handled; 500 with the error or 204.
runComposeAction(name, action, exit, out) ==
    /\ LET rv == settings.RemoveVolumesOnStop
           r == ComposeAction(cmdRun.cmds, name, action, rv, exit, out)
       IN  cmdRun' = [cmdRun EXCEPT !.call =
                        [name |-> name, action |-> action, removeVolumes |-> rv,
                         exit |-> IF r.cmd = <<>> THEN 0 ELSE exit,
                         out |-> IF r.cmd = <<>> THEN "" ELSE out,
                         cmd |-> r.cmd, err |-> r.err,
                         status |-> IF r.err # <<>> THEN 500 ELSE 204]]
    /\ UNCHANGED <<rlvars, stackvars, gatevars, wsvars, aggvars, mutvars, setvars, calcvars, credvars, authvars, ordvars, diskvars, clivars>>

\* handleUpdateSettings, lines 336-338: a patch that carries the toggle.
setRemoveVolumes(v) ==
    /\ settings.RemoveVolumesOnStop # v
    /\ settings' = [settings EXCEPT !.RemoveVolumesOnStop = v]
    /\ UNCHANGED <<cfgAuthEnabled, authStore, req>>
    /\ UNCHANGED <<rlvars, stackvars, wsvars, aggvars, mutvars, setvars, calcvars, credvars, authvars, cmdvars, ordvars, diskvars, clivars>>

NextCmd ==
    \/ \E name \in CmdNames, action \in CmdActions, exit \in ExitCodes, out \in Outputs :
          runComposeAction(name, action, exit, out)
    \/ \E v \in BOOLEAN : setRemoveVolumes(v)

CmdIdle == cmdRun = [cmds |-> <<"docker", "compose">>, call |-> NoCall]

CmdInit == cmdRun \in [cmds : ComposeBinaries, call : {NoCall}]

(***************************************************************************)
(*                        CONCURRENT STATE PUSHES                          *)
(***************************************************************************)

\* The mutating requests of the model, each served on its own goroutine, and
\* the goroutine of broadcastLoop.
OrdHandlers == {"m1", "m2"}
PushRuns == OrdHandlers \cup {"ticker"}

\* The ticker fires at most this many times.
MaxTicks == 2

IdleRun == [pc |-> "idle", ver |-> 0]

\* broadcastLoop, lines 513-515: the ticker fires and the loop calls pushState.
ordTick ==
    /\ ordSt.runs["ticker"].pc \in {"idle", "done"}
    /\ ordSt.ticks < MaxTicks
    /\ ordSt' = [ordSt EXCEPT !.ticks = @ + 1, !.runs["ticker"] = [pc |-> "start", ver |-> 0]]
    /\ UNCHANGED <<rlvars, stackvars, gatevars, wsvars, aggvars, mutvars, setvars, calcvars, credvars, authvars, cmdvars, diskvars, clivars>>

\* handleContainerAction, lines 365-376, when the engine call succeeds: the
\* engine changes, go s.pushState(), 204.
ordAction(h) ==
    /\ ordSt.runs[h].pc = "idle"
    /\ ordSt' = [ordSt EXCEPT !.ver = @ + 1, !.runs[h] = [pc |-> "start", ver |-> 0]]
    /\ UNCHANGED <<rlvars, stackvars, gatevars, wsvars, aggvars, mutvars, setvars, calcvars, credvars, authvars, cmdvars, diskvars, clivars>>

\* pushState, lines 521-541: the recompute reads the engine and builds the
\* payload.
pushRead(k) ==
    /\ ordSt.runs[k].pc = "start"
    /\ ordSt' = [ordSt EXCEPT !.runs[k] = [pc |-> "read", ver |-> ordSt.ver]]
    /\ UNCHANGED <<rlvars, stackvars, gatevars, wsvars, aggvars, mutvars, setvars, calcvars, credvars, authvars, cmdvars, diskvars, clivars>>

\* pushState, lines 548-551: the payload goes to s.hub.broadcast, or is
\* dropped when the hub is not ready to take it.
pushSend(k) ==
    /\ ordSt.runs[k].pc = "read"
    /\ \E taken \in BOOLEAN :
          ordSt' = [ordSt EXCEPT !.runs[k].pc = "done",
                                 !.handed = IF taken THEN Append(@, ordSt.runs[k].ver)
                                            ELSE @]
    /\ UNCHANGED <<rlvars, stackvars, gatevars, wsvars, aggvars, mutvars, setvars, calcvars, credvars, authvars, cmdvars, diskvars, clivars>>

NextOrd ==
    \/ ordTick
    \/ \E h \in OrdHandlers : ordAction(h)
    \/ \E k \in PushRuns : pushRead(k)
    \/ \E k \in PushRuns : pushSend(k)

OrdIdle ==
    ordSt = [ver |-> 0, runs |-> [k \in PushRuns |-> IdleRun], ticks |-> 0,
             handed |-> <<>>]

(***************************************************************************)
(*                         SETTINGS PERSISTENCE                            *)
(***************************************************************************)

\* json.MarshalIndent of a FeatureSet: the nested objects of its json tags.
marshalFeatureSet(f) ==
    [containers |-> [view |-> f["containers.view"], start |-> f["containers.start"],
                     stop |-> f["containers.stop"], restart |-> f["containers.restart"],
                     delete |-> f["containers.delete"]],
     composes |-> [view |-> f["composes.view"], start |-> f["composes.start"],
                   stop |-> f["composes.stop"], restart |-> f["composes.restart"]],
     images |-> [view |-> f["images.view"], delete |-> f["images.delete"],
                 prune |-> f["images.prune"], pull |-> f["images.pull"]]]

\* json.Unmarshal into a FeatureSet.
unmarshalFeatureSet(j) ==
    [sw \in Switches |->
        CASE sw = "containers.view" -> j.containers.view
          [] sw = "containers.start" -> j.containers.start
          [] sw = "containers.stop" -> j.containers.stop
          [] sw = "containers.restart" -> j.containers.restart
          [] sw = "containers.delete" -> j.containers.delete
          [] sw = "composes.view" -> j.composes.view
          [] sw = "composes.start" -> j.composes.start
          [] sw = "composes.stop" -> j.composes.stop
          [] sw = "composes.restart" -> j.composes.restart
          [] sw = "images.view" -> j.images.view
          [] sw = "images.delete" -> j.images.delete
          [] sw = "images.prune" -> j.images.prune
          [] sw = "images.pull" -> j.images.pull]

\* save, line 125: json.MarshalIndent(s.current).
marshalSettings(st) ==
    [authless_mode |-> st.AuthlessMode,
     remove_volumes_on_stop |-> st.RemoveVolumesOnStop,
     admin_features |-> marshalFeatureSet(st.AdminFeatures),
     public_features |-> marshalFeatureSet(st.PublicFeatures)]

\* load, line 84: json.Unmarshal(data, &s.current) of a file save wrote.
unmarshalSettings(j) ==
    [AuthlessMode |-> j.authless_mode,
     RemoveVolumesOnStop |-> j.remove_volumes_on_stop,
     AdminFeatures |-> unmarshalFeatureSet(j.admin_features),
     PublicFeatures |-> unmarshalFeatureSet(j.public_features)]

\* load, lines 75-97: defaults when there is no file, else the decoded file
\* with applyDefaults run over it.
loadSettings(file) ==
    IF file = <<>> THEN applyDefaults(ZeroSettings)
    ELSE applyDefaults(unmarshalSettings(file[1]))

\* The bodies of POST /api/settings: every value of the toggles and of the
\* FeatureSets, or the field left out.
PersistPatches ==
    [AuthlessMode : {<<>>, <<TRUE>>, <<FALSE>>},
     RemoveVolumesOnStop : {<<>>, <<TRUE>>, <<FALSE>>},
     AdminFeatures : {<<>>} \cup {<<f>> : f \in {AllOn, AllOff}},
     PublicFeatures : {<<>>} \cup {<<f>> : f \in {AllOn, AllOff, DefaultPublicFeatures}}]

\* Update, lines 68-73, from Lock to Unlock: the mutator, then save, which
\* writes the file or fails and leaves it.
persistUpdate(patch, ok) ==
    /\ settings' = applyPatch(settings, patch)
    /\ setDisk' = IF ok
                  THEN [file |-> <<marshalSettings(settings')>>, mem |-> <<settings'>>,
                        fresh |-> FALSE]
                  ELSE [setDisk EXCEPT !.fresh = FALSE]
    /\ UNCHANGED <<cfgAuthEnabled, authStore, req>>
    /\ UNCHANGED <<rlvars, stackvars, wsvars, aggvars, mutvars, setvars, calcvars, credvars, authvars, cmdvars, ordvars, clivars>>

\* The process starts again: NewService, lines 52-60, runs load.
restartService ==
    /\ ~setDisk.fresh
    /\ settings' = loadSettings(setDisk.file)
    /\ setDisk' = [setDisk EXCEPT !.fresh = TRUE]
    /\ UNCHANGED <<cfgAuthEnabled, authStore, req>>
    /\ UNCHANGED <<rlvars, stackvars, wsvars, aggvars, mutvars, setvars, calcvars, credvars, authvars, cmdvars, ordvars, clivars>>

NextPersist ==
    \/ \E patch \in PersistPatches, ok \in BOOLEAN : persistUpdate(patch, ok)
    \/ restartService

(***************************************************************************)
(*                          BROWSER PUSH CLIENT                            *)
(*                                                                         *)
(* WSClient of web/src/main.tsx, lines 37-89, as the page uses it in       *)
(* App.tsx, lines 59-82: the effect makes a client, calls connect() once,  *)
(* and its cleanup calls disconnect() once.  A socket is "connecting",     *)
(* "open", "closing" (close() was called or an error was raised; the close *)
(* event is still to come) or "closed"; the browser delivers one close     *)
(* event per socket.  A timer set by setTimeout fires at any later time.   *)
(***************************************************************************)

WSClients == {"w1", "w2"}

\* Sockets one client may make.
MaxSockets == 3

\* this.ws?.close(): no socket yet, or the last one made is asked to close.
closeCurrent(socks) ==
    IF socks # <<>> /\ socks[Len(socks)] \in {"connecting", "open"}
    THEN [socks EXCEPT ![Len(socks)] = "closing"]
    ELSE socks

\* Mutant of connect: the dead flag is not looked at.
connectIgnoringDead(cl) ==
    [cl EXCEPT !.socks = Append(@, "connecting"), !.opened = @ + 1]

\* connect(), lines 50-56: nothing when dead, else a new WebSocket becomes
\* this.ws.
connect(cl) ==
    IF cl.dead
    THEN cl
    ELSE [cl EXCEPT !.socks = Append(@, "connecting"), !.opened = @ + 1]

\* App.tsx, lines 78-79: the effect calls ws.connect() on its new client.
wsStart(c) ==
    /\ ~wsc[c].started
    /\ wsc' = [wsc EXCEPT ![c] = connect([@ EXCEPT !.started = TRUE])]
    /\ UNCHANGED <<rlvars, stackvars, gatevars, wsvars, aggvars, mutvars, setvars, calcvars, credvars, authvars, cmdvars, ordvars, diskvars>>

\* onopen, lines 58-61, of socket k.
onopen(c, k) ==
    /\ k \in DOMAIN wsc[c].socks
    /\ wsc[c].socks[k] = "connecting"
    /\ wsc' = [wsc EXCEPT ![c].socks[k] = "open", ![c].connected = TRUE]
    /\ UNCHANGED <<rlvars, stackvars, gatevars, wsvars, aggvars, mutvars, setvars, calcvars, credvars, authvars, cmdvars, ordvars, diskvars>>

\* onerror, lines 80-82, of socket k: the handler closes this.ws; the socket
\* that failed gets its close event next.
onerror(c, k) ==
    /\ k \in DOMAIN wsc[c].socks
    /\ wsc[c].socks[k] \in {"connecting", "open"}
    /\ wsc' = [wsc EXCEPT ![c].socks = closeCurrent([@ EXCEPT ![k] = "closing"])]
    /\ UNCHANGED <<rlvars, stackvars, gatevars, wsvars, aggvars, mutvars, setvars, calcvars, credvars, authvars, cmdvars, ordvars, diskvars>>

\* onclose, lines 72-78, of socket k: the close event of a socket that was
\* asked to close, that failed, or that the server or the network dropped.
onclose(c, k) ==
    /\ k \in DOMAIN wsc[c].socks
    /\ wsc[c].socks[k] \in {"connecting", "open", "closing"}
    /\ wsc' = [wsc EXCEPT ![c] =
                 [@ EXCEPT !.socks[k] = "closed",
                           !.connected = FALSE,
                           !.closes = @ + 1,
                           !.timers = IF wsc[c].dead THEN @ ELSE @ + 1]]
    /\ UNCHANGED <<rlvars, stackvars, gatevars, wsvars, aggvars, mutvars, setvars, calcvars, credvars, authvars, cmdvars, ordvars, diskvars>>

\* A timer of line 75 fires: () => this.connect().
timerFire(c) ==
    /\ wsc[c].timers > 0
    /\ wsc[c].dead \/ Len(wsc[c].socks) < MaxSockets
    /\ wsc' = [wsc EXCEPT ![c] =
                 connect([@ EXCEPT !.timers = @ - 1,
                                   !.lateFires = IF wsc[c].dead THEN @ + 1 ELSE @])]
    /\ UNCHANGED <<rlvars, stackvars, gatevars, wsvars, aggvars, mutvars, setvars, calcvars, credvars, authvars, cmdvars, ordvars, diskvars>>

\* disconnect(), lines 85-88, called by the effect's cleanup (App.tsx, 81).
disconnect(c) ==
    /\ wsc[c].started /\ ~wsc[c].dead
    /\ wsc' = [wsc EXCEPT ![c] = [@ EXCEPT !.dead = TRUE, !.socks = closeCurrent(@)]]
    /\ UNCHANGED <<rlvars, stackvars, gatevars, wsvars, aggvars, mutvars, setvars, calcvars, credvars, authvars, cmdvars, ordvars, diskvars>>

NextCli ==
    \/ \E c \in WSClients : wsStart(c)
    \/ \E c \in WSClients, k \in 1..MaxSockets : onopen(c, k)
    \/ \E c \in WSClients, k \in 1..MaxSockets : onerror(c, k)
    \/ \E c \in WSClients, k \in 1..MaxSockets : onclose(c, k)
    \/ \E c \in WSClients : timerFire(c)
    \/ \E c \in WSClients : disconnect(c)

\* new WSClient(...), lines 38-48: ws null, dead false, nothing scheduled.
NewWSClient ==
    [dead |-> FALSE, socks |-> <<>>, timers |-> 0, connected |-> FALSE,
     started |-> FALSE, opened |-> 0, closes |-> 0, lateFires |-> 0]

CliIdle == wsc = [c \in WSClients |-> NewWSClient]

\* First start: no settings.json, the defaults were applied.
DiskIdle == setDisk = [file |-> <<>>, mem |-> <<>>, fresh |-> TRUE]

\* The state after construction, one per component under study: the
\* component's own variables range over its start states, the others rest.
InitRL == CliIdle /\ DiskIdle /\ OrdIdle /\ CmdIdle /\ AuthIdle /\ CredIdle /\ CalcIdle /\ SetIdle /\ MutIdle /\ AggIdle /\ WSIdle /\ RLInit /\ StackIdle /\ GateIdle

InitStack == CliIdle /\ DiskIdle /\ OrdIdle /\ CmdIdle /\ AuthIdle /\ CredIdle /\ CalcIdle /\ SetIdle /\ MutIdle /\ AggIdle /\ WSIdle /\ RLInit /\ StackInit /\ GateIdle

Init == CliIdle /\ DiskIdle /\ OrdIdle /\ CmdIdle /\ AuthIdle /\ CredIdle /\ CalcIdle /\ SetIdle /\ MutIdle /\ AggIdle /\ WSIdle /\ RLInit /\ StackIdle /\ GateInit

InitWS == CliIdle /\ DiskIdle /\ OrdIdle /\ CmdIdle /\ AuthIdle /\ CredIdle /\ CalcIdle /\ SetIdle /\ MutIdle /\ AggIdle /\ WSInit /\ RLInit /\ WSStackInit /\ WSGateInit

SpecRL == InitRL /\ [][NextRL]_vars

SpecRLConc == InitRL /\ [][NextRLConc]_vars

\* The gc goroutine beside whole allow() calls. gc() runs for the life of the
\* process: its ticker keeps firing and a pass that waits for the mutex gets it.
SpecRLGc ==
    /\ InitRL
    /\ [][NextRLGc]_vars
    /\ WF_vars(gcEnter)
    /\ WF_vars(gcLocked)

SpecStack == InitStack /\ [][NextStack]_vars

Spec == Init /\ [][Next]_vars

SpecWS == InitWS /\ [][NextWS]_vars

\* The push channel while authless mode is switched on and off.
SpecWSAuth == InitWS /\ [][NextWSAuth]_vars

InitAgg == CliIdle /\ DiskIdle /\ OrdIdle /\ CmdIdle /\ AuthIdle /\ CredIdle /\ CalcIdle /\ SetIdle /\ MutIdle /\ AggIdle /\ WSIdle /\ RLInit /\ AggEngineInit /\ GateIdle

SpecAgg == InitAgg /\ [][NextAgg]_vars

\* One pass whose goroutines all get to run and whose stats calls all return.
SpecAggLive ==
    /\ SpecAgg
    /\ \A i \in 1..Cardinality(ContainerIDs) :
          /\ WF_vars(\E outcome \in StatsOutcomes : statsCall(i, outcome))
          /\ WF_vars(statsSend(i))
    /\ WF_vars(closeStatsChan)
    /\ WF_vars(collectSample)
    /\ WF_vars(returnContainers)

InitSet == CliIdle /\ DiskIdle /\ OrdIdle /\ CmdIdle /\ AuthIdle /\ CredIdle /\ CalcIdle /\ SetIdle /\ MutIdle /\ AggIdle /\ WSIdle /\ RLInit /\ StackIdle /\ GateIdle

SpecSet == InitSet /\ [][NextSet]_vars

InitCalc == CliIdle /\ DiskIdle /\ OrdIdle /\ CmdIdle /\ AuthIdle /\ CredIdle /\ CalcInit /\ SetIdle /\ MutIdle /\ AggIdle /\ WSIdle /\ RLInit /\ StackIdle /\ GateIdle

SpecCalc == InitCalc /\ [][computeSample]_vars

\* The auth store as found at startup: set up already or not.
InitCred ==
    /\ CliIdle /\ DiskIdle /\ OrdIdle /\ CmdIdle /\ AuthIdle /\ CredIdle /\ CalcIdle /\ SetIdle /\ MutIdle /\ AggIdle /\ WSIdle /\ RLInit /\ StackIdle
    /\ cfgAuthEnabled = TRUE
    /\ authStore \in [configured : BOOLEAN]
    /\ settings = applyDefaults(ZeroSettings)
    /\ req = [r \in Reqs |-> IdleReq]

SpecCred == InitCred /\ [][NextCred]_vars

InitAuth ==
    /\ CliIdle /\ DiskIdle /\ OrdIdle /\ CmdIdle /\ AuthInit /\ CredIdle /\ CalcIdle /\ SetIdle /\ MutIdle /\ AggIdle /\ WSIdle /\ RLInit
    /\ StackIdle /\ GateIdle

SpecAuth == InitAuth /\ [][NextAuth]_vars

InitCmd ==
    /\ CliIdle /\ DiskIdle /\ OrdIdle /\ CmdInit /\ AuthIdle /\ CredIdle /\ CalcIdle /\ SetIdle /\ MutIdle /\ AggIdle /\ WSIdle
    /\ RLInit /\ StackIdle /\ GateIdle

SpecCmd == InitCmd /\ [][NextCmd]_vars

InitOrd ==
    /\ CliIdle /\ DiskIdle /\ OrdIdle /\ CmdIdle /\ AuthIdle /\ CredIdle /\ CalcIdle /\ SetIdle /\ MutIdle /\ AggIdle
    /\ WSIdle /\ RLInit /\ StackIdle /\ GateIdle

SpecOrd == InitOrd /\ [][NextOrd]_vars

InitPersist ==
    /\ CliIdle /\ DiskIdle /\ OrdIdle /\ CmdIdle /\ AuthIdle /\ CredIdle /\ CalcIdle /\ SetIdle /\ MutIdle
    /\ AggIdle /\ WSIdle /\ RLInit /\ StackIdle /\ GateIdle

SpecPersist == InitPersist /\ [][NextPersist]_vars

InitCli ==
    /\ CliIdle /\ DiskIdle /\ OrdIdle /\ CmdIdle /\ AuthIdle /\ CredIdle /\ CalcIdle /\ SetIdle
    /\ MutIdle /\ AggIdle /\ WSIdle /\ RLInit /\ StackIdle /\ GateIdle

SpecCli == InitCli /\ [][NextCli]_vars

InitHub == CliIdle /\ DiskIdle /\ OrdIdle /\ CmdIdle /\ AuthIdle /\ CredIdle /\ CalcIdle /\ SetIdle /\ MutIdle /\ AggIdle /\ HubInit /\ RLInit /\ WSStackInit /\ GateIdle

\* The scheduler runs every goroutine that can run: the pushState spawned at
\* a connection, the hub and a subscriber's writePump are not postponed forever.
SpecWSLive ==
    /\ SpecWS
    /\ WF_vars(pushOnConnect)
    /\ WF_vars(hubBroadcast)
    /\ \A p \in Peers : WF_vars(writePump(p))

SpecHub == InitHub /\ [][NextHub]_vars

InitMut == CliIdle /\ DiskIdle /\ OrdIdle /\ CmdIdle /\ AuthIdle /\ CredIdle /\ CalcIdle /\ SetIdle /\ MutInit /\ AggIdle /\ WSIdle /\ RLInit /\ MutStackInit /\ GateIdle

SpecMut == InitMut /\ [][NextMut]_vars

\* The scheduler runs every goroutine that can run: a spawned pushState and a
\* handler past its engine call are not postponed forever.
SpecMutLive ==
    /\ SpecMut
    /\ WF_vars(\E i \in 1..MaxPushes : pushAfterAction(i))
    /\ WF_vars(\E m \in MutSlots : actionRespond(m))

(***************************************************************************)
(* Stack reconciler: claims                                                *)
(***************************************************************************)

\* The services declared for stack k: those of the first candidate file of its
\* directory that reads and parses.
DeclaredServices(k) ==
    LET files == fsys[Composes[k].Path]
        good == {i \in 1..Len(files) : files[i].kind = "parsed"}
    IN  IF good = {} THEN {}
        ELSE files[CHOOSE i \in good : \A j \in good : i <= j].Services

\* The project of stack k: the declaration's name, else the directory's name.
ProjectOf(k) ==
    LET files == fsys[Composes[k].Path]
        good == {i \in 1..Len(files) : files[i].kind = "parsed"}
        first == CHOOSE i \in good : \A j \in good : i <= j
    IN  IF good # {} /\ files[first].Name # "" THEN files[first].Name
        ELSE Composes[k].Path[Len(Composes[k].Path)]

\* Service svc of stack k is bound to a container of the engine and that
\* container runs: the container bound is the last one listed with the labels.
BoundAndRunning(k, svc) ==
    LET pos == {i \in 1..Len(ListOrder) :
                  /\ engine[ListOrder[i]].Exists
                  /\ engine[ListOrder[i]].Project = ProjectOf(k)
                  /\ engine[ListOrder[i]].Service = svc}
    IN  /\ pos # {}
        /\ engine[ListOrder[CHOOSE i \in pos : \A j \in pos : j <= i]].State = "running"

RunningServices(k) == {svc \in DeclaredServices(k) : BoundAndRunning(k, svc)}

\* C10: in the stacks a pass returned, a stack is "running" iff it declares at
\* least one service and every declared service is bound and running, "stopped"
\* iff no declared service is bound and running (so always with zero declared
\* services), and "partial" otherwise; it lists one entry per declared service.
C10_StackStatus ==
    stacks.ret = "ok" =>
        \A k \in 1..Len(Composes) :
            LET st == stacks.val[k]
                n == Cardinality(DeclaredServices(k))
                r == Cardinality(RunningServices(k))
            IN  /\ Len(st.Services) = n
                /\ {st.Services[i].Name : i \in 1..n} = DeclaredServices(k)
                /\ st.Status \in {"running", "partial", "stopped"}
                /\ st.Status = "running" <=> (n > 0 /\ r = n)
                /\ st.Status = "stopped" <=> r = 0
                /\ st.Status = "partial" <=> (0 < r /\ r < n)
                /\ n = 0 => st.Status = "stopped"

\* A pass returned a three-service stack with two services running ("partial")
\* next to a one-service stack whose service runs ("running").
C10_Witness ==
    /\ stacks.ret = "ok"
    /\ Cardinality(DeclaredServices(1)) = 3
    /\ Cardinality(RunningServices(1)) = 2
    /\ stacks.val[1].Status = "partial"
    /\ Cardinality(DeclaredServices(2)) = 1
    /\ stacks.val[2].Status = "running"

\* The live containers carrying stack k's project identity and service svc.
LiveFor(k, svc) ==
    {id \in ContainerIDs :
        /\ engine[id].Exists
        /\ engine[id].Project = ProjectOf(k)
        /\ engine[id].Service = svc}

\* The entry of service svc in the snapshot of stack k (the set of them).
EntriesOf(k, svc) ==
    {i \in 1..Len(stacks.val[k].Services) : stacks.val[k].Services[i].Name = svc}

\* C11: a returned stack lists exactly one entry per declared service, however
\* many containers carry the service's label (none, one, several) and whatever
\* undeclared service labels the project's containers carry; the entry of a
\* declared service without a live container reads "not created", stopped,
\* not running, no container id.
C11_OneEntryPerDeclaredService ==
    stacks.ret = "ok" =>
        \A k \in 1..Len(Composes) :
            /\ Len(stacks.val[k].Services) = Cardinality(DeclaredServices(k))
            /\ \A svc \in DeclaredServices(k) :
                  /\ Cardinality(EntriesOf(k, svc)) = 1
                  /\ LiveFor(k, svc) = {} =>
                        \A i \in EntriesOf(k, svc) :
                           /\ stacks.val[k].Services[i].Status = "not created"
                           /\ stacks.val[k].Services[i].State = "stopped"
                           /\ stacks.val[k].Services[i].Running = FALSE
                           /\ stacks.val[k].Services[i].ContainerID = ""
            /\ \A i \in 1..Len(stacks.val[k].Services) :
                  stacks.val[k].Services[i].Name \in DeclaredServices(k)

\* A pass returned while two containers carried the same declared service
\* label, a container of the project carried an undeclared one, and a declared
\* service had no container.
C11_Witness ==
    /\ stacks.ret = "ok"
    /\ \E k \in 1..Len(Composes) : \E svc \in DeclaredServices(k) :
          Cardinality(LiveFor(k, svc)) = 2
    /\ \E k \in 1..Len(Composes) : \E id \in ContainerIDs :
          /\ engine[id].Exists /\ engine[id].Project = ProjectOf(k)
          /\ engine[id].Service # "" /\ engine[id].Service \notin DeclaredServices(k)
    /\ \E k \in 1..Len(Composes) : \E svc \in DeclaredServices(k) :
          LiveFor(k, svc) = {}

\* The scenario of C12 holds in the engine and the files: stack 1 is project
\* "web" declaring app and db, and the engine lists one container only, running,
\* labelled web / app.
OnlyWebAppRuns ==
    /\ ProjectOf(1) = "web"
    /\ DeclaredServices(1) = {"app", "db"}
    /\ \E id \in ContainerIDs :
          /\ engine[id] = summary(id, "running", <<"web", "app">>)
          /\ \A other \in ContainerIDs \ {id} : ~engine[other].Exists

\* C12: with project "web" declaring {app, db} and a single running container
\* labelled web / app, the pass reports the stack "partial", app bound to that
\* container and running, db "not created".
C12_PartialEndToEnd ==
    stacks.ret = "ok" /\ OnlyWebAppRuns =>
        /\ stacks.val[1].Status = "partial"
        /\ \A i \in EntriesOf(1, "app") :
              /\ stacks.val[1].Services[i].Running
              /\ stacks.val[1].Services[i].State = "running"
              /\ \E id \in ContainerIDs :
                    engine[id].Exists /\ stacks.val[1].Services[i].ContainerID = id[1]
        /\ \A i \in EntriesOf(1, "db") :
              /\ stacks.val[1].Services[i].Status = "not created"
              /\ ~stacks.val[1].Services[i].Running
        /\ Cardinality(EntriesOf(1, "app")) = 1
        /\ Cardinality(EntriesOf(1, "db")) = 1

C12_Witness == stacks.ret = "ok" /\ OnlyWebAppRuns

\* C13: a declared service's entry is bound to a container exactly when a live
\* container carries the stack's project identity (the declaration's name when
\* non-empty, else the last path component) and the service's label; containers
\* labelled with the configured stack name are not bound on that account.
C13_ProjectIdentity ==
    stacks.ret = "ok" =>
        \A k \in 1..Len(Composes) : \A i \in 1..Len(stacks.val[k].Services) :
            LET e == stacks.val[k].Services[i]
            IN  /\ e.ContainerID # "" <=> LiveFor(k, e.Name) # {}
                /\ e.ContainerID # "" =>
                      \E id \in LiveFor(k, e.Name) : e.ContainerID = id[1]

\* Stack 1, configured as "shop", has project identity "web"; a container
\* labelled shop / app runs, none is labelled web / app, and the entry of app
\* is unbound.
C13_Witness ==
    /\ stacks.ret = "ok"
    /\ Composes[1].Name = "shop" /\ ProjectOf(1) = "web"
    /\ "app" \in DeclaredServices(1)
    /\ \E id \in ContainerIDs : engine[id] = summary(id, "running", <<"shop", "app">>)
    /\ \A i \in EntriesOf(1, "app") : stacks.val[1].Services[i].Status = "not created"

\* The declaration the probe order selects in directory k: the first of the
\* four candidates that is neither missing nor garbage (0 if there is none).
FirstParsable(k) ==
    LET files == fsys[Composes[k].Path]
    IN  IF files[1].kind = "parsed" THEN 1
        ELSE IF files[2].kind = "parsed" THEN 2
        ELSE IF files[3].kind = "parsed" THEN 3
        ELSE IF files[4].kind = "parsed" THEN 4
        ELSE 0

\* C14: the services of a returned stack are those of the first candidate, in
\* the order docker-compose.yml, docker-compose.yaml, compose.yml,
\* compose.yaml, that is readable and parses; a stack none of whose candidates
\* parses is still returned, with no service and status "stopped", next to the
\* other stacks.
C14_ProbeOrder ==
    stacks.ret = "ok" =>
        /\ Len(stacks.val) = Len(Composes)
        /\ \A k \in 1..Len(Composes) :
              /\ stacks.val[k].Name = Composes[k].Name
              /\ stacks.val[k].Path = Composes[k].Path
              /\ FirstParsable(k) # 0 =>
                    {stacks.val[k].Services[i].Name : i \in 1..Len(stacks.val[k].Services)}
                       = fsys[Composes[k].Path][FirstParsable(k)].Services
              /\ FirstParsable(k) = 0 =>
                    /\ stacks.val[k].Services = <<>>
                    /\ stacks.val[k].Status = "stopped"

\* Stack 1's first candidate is missing and its second is garbage, so the
\* third decides (a fourth one parses too); stack 2 has no readable file and is
\* returned empty and stopped while stack 1 has a running service.
C14_Witness ==
    /\ stacks.ret = "ok"
    /\ FirstParsable(1) = 3
    /\ fsys[Composes[1].Path][2].kind = "garbage"
    /\ fsys[Composes[1].Path][4].kind = "parsed"
    /\ FirstParsable(2) = 0
    /\ stacks.val[2].Services = <<>>
    /\ stacks.val[1].Status = "partial"

(***************************************************************************)
(* Stats aggregation: claims                                               *)
(***************************************************************************)

\* The identifiers the engine lists, in listing order, and the running ones.
ListedIDs == SelectSeq(ListOrder, LAMBDA id : engine[id].Exists)
RunningIDs == {id \in ContainerIDs : engine[id].Exists /\ engine[id].State = "running"}

\* The sample of each container, worked out by hand from the engine's figures:
\* CPU in hundredths of a percent, memory used, memory limit.
ExpectedSample ==
    [id \in ContainerIDs |->
        IF id = <<"a1b2", "x">> THEN [cpu |-> 4000, mem |-> 400, memLim |-> 1000]
        ELSE IF id = <<"a1b2", "y">> THEN [cpu |-> 2000, mem |-> 300, memLim |-> 2000]
        ELSE [cpu |-> 2000, mem |-> 0, memLim |-> 128]]

\* C15: a pass over N listed containers returns N snapshots, the i-th for the
\* i-th listed identifier; a container that does not run carries CPU 0, memory
\* 0, limit 0, and the stats call is only ever issued for running identifiers.
C15_OneSnapshotPerResource ==
    /\ statsCalls \subseteq RunningIDs
    /\ aggResult.ret = "ok" =>
          /\ Len(aggResult.val) = Len(ListedIDs)
          /\ \A i \in 1..Len(ListedIDs) :
                /\ aggResult.val[i].FullID = ListedIDs[i]
                /\ ListedIDs[i] \notin RunningIDs =>
                      /\ aggResult.val[i].CPU = 0
                      /\ aggResult.val[i].Memory = 0
                      /\ aggResult.val[i].MemoryLimit = 0

\* A pass over three containers, one of them running, returned; the running
\* one carries its sample.
C15_Witness ==
    /\ aggResult.ret = "ok"
    /\ Len(ListedIDs) = 3
    /\ Cardinality(RunningIDs) = 1
    /\ statsCalls = RunningIDs
    /\ \E i \in 1..3 : aggResult.val[i].CPU > 0

\* C16: in a returned pass a running container whose stats call failed, timed
\* out or gave an unparseable body carries the zero sample, every running
\* container whose call succeeded carries its own sample, and the only error
\* a pass returns is the listing's.
C16_StatsFailureIsolated ==
    /\ aggResult.ret = "err" => workers = <<>> /\ statsCalls = {}
    /\ aggPc = "done" => aggResult.ret \in {"ok", "err"}
    /\ aggResult.ret = "ok" =>
          /\ Len(aggResult.val) = Len(workers)
          /\ \A i \in 1..Len(workers) :
                LET snap == aggResult.val[i]
                    id == aggList[i].ID
                IN  /\ workers[i].outcome \in {"error", "read error", "bad body"} =>
                          snap.CPU = 0 /\ snap.Memory = 0 /\ snap.MemoryLimit = 0
                    /\ workers[i].outcome = "ok" =>
                          /\ snap.FullID = id
                          /\ snap.CPU = ExpectedSample[id].cpu
                          /\ snap.Memory = ExpectedSample[id].mem
                          /\ snap.MemoryLimit = ExpectedSample[id].memLim

\* A pass over three running containers returned: the stats call of the first
\* failed, the second's body did not parse, the third carries its sample.
C16_Witness ==
    /\ aggResult.ret = "ok"
    /\ Len(workers) = 3
    /\ workers[1].outcome = "error"
    /\ workers[2].outcome = "bad body"
    /\ workers[3].outcome = "ok"
    /\ aggResult.val[3].MemoryLimit = 128

(***************************************************************************)
(* Mutating handlers: claims                                               *)
(***************************************************************************)

\* The pushes the handler of slot m has spawned, run or not.
PushesBy(m) ==
    Cardinality({i \in 1..Len(spawned) : spawned[i].by = m})
    + Cardinality({i \in 1..Len(pushLog) : pushLog[i].by = m})

\* The handler of slot m goes from the return of its engine call to its answer.
Responds(m) == acts[m].pc = "returned" /\ acts'[m].pc = "done"

\* C17: a mutating action whose engine call (or compose command) returned
\* without error is answered 204 and spawns exactly one pushState of its own,
\* which runs whatever the ticker does; an action whose call failed is answered
\* 500 and spawns none, and an unknown container or stack is such a failure.
C17_PushAfterSuccessfulMutation ==
    /\ [](\A m \in MutSlots :
            /\ PushesBy(m) = IF acts[m].pc = "done" /\ ~acts[m].err THEN 1 ELSE 0
            /\ acts[m].pc = "done" => acts[m].status = IF acts[m].err THEN 500 ELSE 204
            /\ acts[m].pc # "idle" /\ acts[m].target \in {"zzzz", "none"} => acts[m].err)
    /\ [][/\ \A m \in MutSlots :
               Responds(m) =>
                  /\ ~acts[m].err => /\ acts'[m].status = 204
                                     /\ spawned' = Append(spawned, [by |-> m, ver |-> Len(engHist)])
                  /\ acts[m].err => acts'[m].status = 500 /\ spawned' = spawned
          /\ Len(spawned') > Len(spawned) => \E m \in MutSlots : Responds(m) /\ ~acts[m].err
          /\ nPush' # nPush /\ spawned' = spawned => pushLog' = pushLog]_vars
    /\ \A m \in MutSlots :
          (acts[m].pc = "returned" /\ ~acts[m].err)
             ~> (\E i \in 1..Len(pushLog) : pushLog[i].by = m)

\* A container stop answered 204 has had its push run after a ticker push,
\* while a stack action on an unknown name was answered 500 and pushed nothing.
C17_Witness ==
    /\ \E m \in MutSlots :
          /\ acts[m].pc = "done" /\ acts[m].kind = "container" /\ acts[m].verb = "stop"
          /\ acts[m].status = 204
          /\ \E i \in 1..Len(pushLog) : pushLog[i].by = m
    /\ \E m \in MutSlots :
          /\ acts[m].pc = "done" /\ acts[m].kind = "compose"
          /\ acts[m].status = 500
          /\ PushesBy(m) = 0
    /\ nPush = 2

\* The engine at version v carries the effect of the action of slot m.
EffectIn(m, v) ==
    LET eng == engHist[v]
        a == acts[m]
    IN  IF a.kind = "container"
        THEN LET id == a.id[1]
             IN  CASE a.verb = "delete" -> ~eng[id].Exists
                   [] a.verb = "stop" -> eng[id].Exists /\ eng[id].State = "exited"
                   [] OTHER -> eng[id].Exists /\ eng[id].State = "running"
        ELSE LET proj == resolveProjectName(fsys, findCompose(a.target)[1].Path)
                 mine == {id \in ContainerIDs : eng[id].Exists /\ eng[id].Project = proj}
             IN  CASE a.verb = "stop" -> mine = {}
                   [] a.verb = "start" ->
                        \A svc \in parseServiceNames(fsys, findCompose(a.target)[1].Path) :
                           \E id \in mine : eng[id].Service = svc /\ eng[id].State = "running"
                   [] OTHER -> TRUE

\* C18: the pushState a mutation spawned is spawned after the mutation's engine
\* call returned and reads the engine after that: the engine has the mutation's
\* effect when the call returns, the state the push reads is that one or a
\* later one, and the containers of its payload are those of the state it read.
C18_PushReadsAfterMutation ==
    /\ \A i \in 1..Len(spawned) :
          /\ acts[spawned[i].by].pc = "done" /\ ~acts[spawned[i].by].err
          /\ acts[spawned[i].by].ver <= spawned[i].ver
    /\ \A m \in MutSlots :
          acts[m].pc # "idle" /\ ~acts[m].err => EffectIn(m, acts[m].ver)
    /\ \A i \in 1..Len(pushLog) :
          LET e == pushLog[i]
          IN  /\ acts[e.by].pc = "done" /\ ~acts[e.by].err
              /\ acts[e.by].ver <= e.spawnVer
              /\ e.spawnVer <= e.readVer
              /\ e.sent => e.msg.Containers \in {<<>>, GetContainers(engHist[e.readVer])}
              /\ e.sent /\ e.readVer = acts[e.by].ver /\ e.msg.Composes # <<>>
                 /\ acts[e.by].kind = "compose" /\ acts[e.by].verb = "stop"
                    => e.msg.Composes[1].Status = "stopped"

\* The push spawned by a container stop read the engine straight after the
\* stop and its payload shows that container exited; the other slot's stack
\* stop has had its push too.
C18_Witness ==
    /\ \E i \in 1..Len(pushLog) :
          LET e == pushLog[i]
          IN  /\ acts[e.by].kind = "container" /\ acts[e.by].verb = "stop"
              /\ e.readVer = acts[e.by].ver
              /\ e.sent
              /\ e.msg.Containers = <<[ID |-> "a1b2", State |-> "exited"],
                                      [ID |-> "c3d4", State |-> "exited"]>>
    /\ \E i \in 1..Len(pushLog) :
          LET e == pushLog[i]
          IN  /\ acts[e.by].kind = "compose" /\ acts[e.by].verb = "stop"
              /\ e.sent
              /\ e.msg.Containers = <<>>
              /\ e.msg.Composes # <<>>
              /\ e.msg.Composes[1].Status = "stopped"

(***************************************************************************)
(* Hub: claims                                                             *)
(***************************************************************************)

\* The hub fans one payload out in this step.
HubStep == nCast' = nCast + 1

\* C21: the registry holds exactly the subscribers whose connection is open
\* and whose channel is therefore not closed; a subscriber enters it in the
\* step that opens its connection and leaves it in the step that ends it, and
\* a peer outside the registry has an empty channel that no broadcast adds to.
C21_NoStaleSubscriber ==
    /\ [](/\ clients = {p \in Peers : conns[p].pc = "open"}
          /\ \A p \in Peers : p \notin clients => conns[p].send = <<>>)
    /\ [][\A p \in Peers :
            /\ p \in clients' /\ p \notin clients
                  => conns[p].pc = "out" /\ conns'[p].pc = "open" /\ conns'[p].status = 101
            /\ p \in clients /\ p \notin clients'
                  => conns[p].pc = "open" /\ conns'[p].pc = "out"
            /\ HubStep /\ p \notin clients => conns'[p] = conns[p]]_vars

\* A subscriber that had received a payload has disconnected, and the hub has
\* since fanned a second payload out to the other subscriber only.
C21_Witness ==
    /\ nCast = 2
    /\ conns["p1"].pc = "out" /\ conns["p1"].status = 101
    /\ conns["p1"].got # <<>> /\ conns["p1"].send = <<>>
    /\ clients = {"p2"}
    /\ Len(conns["p2"].send) = 1

StackLists ==
    { << buildStack(fsys, Composes[1], containerList(engine), o1),
         buildStack(fsys, Composes[2], containerList(engine), o2) >> :
      o1 \in Orders(parseServiceNames(fsys, Composes[1].Path)),
      o2 \in Orders(parseServiceNames(fsys, Composes[2].Path)) }

\* The payloads of a recompute whose container fetch and stack fetch went as
\* cok and sok say.
Degraded(cok, sok) ==
    { [Type |-> "state",
       Containers |-> IF cok THEN GetContainers(engine) ELSE <<>>,
       Composes |-> IF sok THEN sl ELSE <<>>] : sl \in StackLists }

\* C23: whichever of its two fetches fail, pushState can hand the hub a payload
\* whose failed half is an empty list and whose other half is the fetched list,
\* both halves empty when both failed; and the hub's channel never holds
\* anything else.
C23_FailedHalfIsEmpty ==
    /\ \A i \in 1..Len(hubIn) :
          \E cok \in BOOLEAN, sok \in BOOLEAN : hubIn[i] \in Degraded(cok, sok)
    /\ nPush + pending < MaxPushes =>
          \A cok \in BOOLEAN, sok \in BOOLEAN :
             \E m \in Degraded(cok, sok) :
                ENABLED (broadcastLoop /\ hubIn' = Append(hubIn, m))

\* One subscriber has received a payload with the containers and no stacks,
\* the other a payload with both lists empty.
C23_Witness ==
    /\ conns["p1"].got # <<>>
    /\ conns["p1"].got[1].Containers = GetContainers(engine)
    /\ conns["p1"].got[1].Containers # <<>>
    /\ conns["p1"].got[1].Composes = <<>>
    /\ conns["p2"].got = <<EmptyState>>

\* C19: when the hub fans a payload out, every registered subscriber whose
\* buffer has room gets the payload at the end of its buffer, a registered
\* subscriber whose buffer is full keeps its buffer as it was and stays
\* registered, and nothing else changes for anyone.
C19_FullSubscriberOnlyMisses ==
    [][HubStep =>
          /\ hubIn # <<>>
          /\ clients' = clients
          /\ \A p \in Peers :
                IF p \in clients /\ Len(conns[p].send) < sendBuffer
                THEN conns'[p] = [conns[p] EXCEPT !.send = Append(@, Head(hubIn))]
                ELSE conns'[p] = conns[p]]_vars

\* Two registered subscribers, neither read from since: one had a full buffer
\* and holds only the old payloads, the other had one slot free and holds the
\* broadcast payload in it.
C19_Witness ==
    /\ clients = Peers
    /\ nCast = 1
    /\ conns["p1"].got = <<>> /\ conns["p2"].got = <<>>
    /\ Len(conns["p1"].send) = sendBuffer
    /\ \A i \in 1..sendBuffer : conns["p1"].send[i] = EmptyState
    /\ Len(conns["p2"].send) = sendBuffer
    /\ conns["p2"].send[sendBuffer] # EmptyState

\* C20: whatever the registry holds (nobody, subscribers with full buffers,
\* subscribers nobody reads from), the hub can fan out the payload at the head
\* of its channel and pushState can run to its end; neither waits for a
\* subscriber's buffer to drain.
C20_BroadcastNeverBlocks ==
    /\ hubIn # <<>> => ENABLED hubBroadcast
    /\ nPush < MaxPushes => ENABLED broadcastLoop

\* The hub has fanned out two payloads while every registered subscriber's
\* buffer was full and none was read from.
C20_Witness ==
    /\ nCast = 2
    /\ hubIn = <<>>
    /\ clients = Peers
    /\ \A p \in Peers : /\ Len(conns[p].send) = sendBuffer
                        /\ conns[p].got = <<>>
                        /\ \A i \in 1..sendBuffer : conns[p].send[i] = EmptyState

(***************************************************************************)
(* Settings service: claims                                                *)
(***************************************************************************)

\* C24: what Get returns is s.current as it was at start or after some whole
\* update, never the fields of an update half applied; no reader holds the
\* lock while a writer does; and a snapshot a caller holds stays as it was
\* returned whatever updates follow.
C24_GetIsConsistentSnapshot ==
    /\ [](/\ setSvc.mu.writer # "" => setSvc.mu.readers = {}
          /\ \A c \in Getters :
                setSvc.proc[c].ret # <<>> => setSvc.proc[c].ret[1] \in setSvc.hist)
    /\ [][\A c \in Getters :
            setSvc.proc[c].pc = "got" /\ setSvc'.proc[c].pc = "got"
               => setSvc'.proc[c].ret = setSvc.proc[c].ret]_vars

\* The reader holds the settings one whole update produced, while the other
\* update is halfway through its mutator and s.current is in no whole state.
C24_Witness ==
    /\ setSvc.proc["g1"].pc = "got"
    /\ setSvc.proc["g1"].ret # <<applyDefaults(ZeroSettings)>>
    /\ \E c \in Updaters : setSvc.proc[c].pc = "fn" /\ setSvc.proc[c].at = 3
    /\ settings \notin setSvc.hist
    /\ settings # setSvc.proc["g1"].ret[1]

\* C25: when the mutator of an update has run, every field the patch carries
\* has the patch's value and every field it does not carry has the value it
\* had when the update took the lock; with an empty patch s.current is what
\* it was.
C25_UpdateChangesOnlyPatchedFields ==
    \A c \in Updaters :
       setSvc.proc[c].pc = "save" =>
          /\ \A i \in 1..Len(SettingsFields) :
                LET f == SettingsFields[i]
                IN  settings[f] = IF setSvc.proc[c].patch[f] = <<>>
                                  THEN setSvc.proc[c].before[f]
                                  ELSE setSvc.proc[c].patch[f][1]
          /\ setSvc.proc[c].patch = NoPatch => settings = setSvc.proc[c].before

\* After a first update that turned authless mode on and every admin switch
\* off, a second one carrying only remove_volumes_on_stop has run its mutator.
C25_Witness ==
    /\ setSvc.proc["u1"].pc = "done"
    /\ setSvc.proc["u1"].patch = [NoPatch EXCEPT !.AuthlessMode = <<TRUE>>,
                                                 !.AdminFeatures = <<AllOff>>]
    /\ setSvc.proc["u2"].pc = "save"
    /\ setSvc.proc["u2"].patch = [NoPatch EXCEPT !.RemoveVolumesOnStop = <<TRUE>>]
    /\ settings = [AuthlessMode |-> TRUE, RemoveVolumesOnStop |-> TRUE,
                   AdminFeatures |-> AllOff, PublicFeatures |-> DefaultPublicFeatures]

(***************************************************************************)
(* Stats figures: claims                                                   *)
(***************************************************************************)

CpuDelta == calcIn.TotalUsage - calcIn.PreTotalUsage
SysDelta == calcIn.SystemUsage - calcIn.PreSystemUsage

\* The CPU count calcCPUPercent multiplies by: OnlineCPUs, or the number of
\* per-CPU usage entries when the engine reports no OnlineCPUs.
EffectiveCPUs ==
    IF calcIn.OnlineCPUs = 0 THEN calcIn.PercpuLen ELSE calcIn.OnlineCPUs

\* r hundredths is the quotient num / den rounded to the nearest hundredth of
\* a unit, a half rounded up (num >= 0, den > 0).
IsRounded(r, num, den) ==
    /\ 2 * r * den - den <= 2 * num * 100
    /\ 2 * num * 100 < 2 * r * den + den

\* C26: the CPU percentage is (cpuDelta / systemDelta) x the online CPU count
\* x 100 rounded to two decimals when both deltas are positive, exactly 0 when
\* either is not, and never negative; the online CPU count is the reported
\* one, or the number of per-CPU usage entries when none is reported.
C26_CPUPercent ==
    calcOut # <<>> =>
       /\ calcOut[1].cpu >= 0
       /\ IF SysDelta > 0 /\ CpuDelta > 0
          THEN IsRounded(calcOut[1].cpu, CpuDelta * EffectiveCPUs * 100, SysDelta)
          ELSE calcOut[1].cpu = 0

\* 2 of 7 units of system time on 4 per-CPU entries with no online count:
\* 114.285... percent, returned as 114.29.
C26_Witness ==
    /\ calcOut # <<>>
    /\ CpuDelta = 2 /\ SysDelta = 7
    /\ calcIn.OnlineCPUs = 0 /\ calcIn.PercpuLen = 4
    /\ calcOut[1].cpu = 11429

\* C27, as stated: memory used is usage minus the page cache when the cache
\* figure is not larger than usage (an absent figure reads as 0), the raw
\* usage when it is larger; the limit is the reported one.
C27_MemoryUsed ==
    calcOut # <<>> =>
       /\ calcOut[1].mem = IF calcIn.Cache <= calcIn.Usage
                           THEN calcIn.Usage - calcIn.Cache
                           ELSE calcIn.Usage
       /\ calcOut[1].memLim = calcIn.Limit

(***************************************************************************)
(* Request gate: claims                                                    *)
(***************************************************************************)

\* The credential of the request is one the auth service accepts.
CredentialValid(h) == authStore.configured /\ h = [scheme |-> "Bearer", cred |-> "good"]

\* The one switch each feature-gated endpoint depends on.
SwitchTable ==
    { <<"GET /api/containers", "containers.view">>,
      <<"POST /api/containers/{id}/start", "containers.start">>,
      <<"POST /api/containers/{id}/stop", "containers.stop">>,
      <<"POST /api/containers/{id}/restart", "containers.restart">>,
      <<"DELETE /api/containers/{id}", "containers.delete">>,
      <<"GET /api/composes", "composes.view">>,
      <<"POST /api/composes/{name}/start", "composes.start">>,
      <<"POST /api/composes/{name}/stop", "composes.stop">>,
      <<"POST /api/composes/{name}/restart", "composes.restart">>,
      <<"GET /api/images", "images.view">>,
      <<"DELETE /api/images/{id}", "images.delete">>,
      <<"POST /api/images/prune", "images.prune">>,
      <<"POST /api/images/pull", "images.pull">> }

SwitchOf(route) == (CHOOSE p \in SwitchTable : p[1] = route)[2]

\* The switch of the route of r is on in the profile of level lv, now.
SwitchOn(r, lv) ==
    IF lv = "admin" THEN settings.AdminFeatures[SwitchOf(req[r].route)]
    ELSE settings.PublicFeatures[SwitchOf(req[r].route)]

Resolved(r) == req[r].level \in {"admin", "public"}

\* The request r takes the step of the middleware at stage pc.
Steps(r, pc) == req[r].pc = pc /\ req'[r] # req[r]

\* C1: on a feature-gated endpoint the handler is entered only by a request
\* that authMiddleware resolved to a level and whose endpoint's switch is true
\* in that level's FeatureSet when requireFeature reads it; a request answered
\* 401 or 403 made no engine call and pushed no state, and only a request
\* that entered the handler did either.
C1_HandlerOnlyBehindGate ==
    /\ [](\A r \in Reqs :
            /\ req[r].status \in {401, 403} => ~req[r].called /\ ~req[r].pushed
            /\ req[r].pc \in {"auth", "feature", "admin", "handler"}
                  => ~req[r].called /\ ~req[r].pushed
            /\ req[r].pc = "handler" => Resolved(r))
    /\ [][\A r \in Reqs :
            /\ req[r].route \in FeatureRoutes
               /\ req[r].pc # "handler" /\ req'[r].pc = "handler"
                  => /\ req[r].pc = "feature"
                     /\ Resolved(r)
                     /\ SwitchOn(r, req[r].level)
            /\ (req'[r].called /\ ~req[r].called) \/ (req'[r].pushed /\ ~req[r].pushed)
                  => req[r].pc = "handler"]_vars

\* A public caller's container start ran the engine call and pushed state (the
\* public switch was turned on by a settings update), while the other slot's
\* request was refused.
C1_Witness ==
    /\ req["r1"].route = "POST /api/containers/{id}/start"
    /\ req["r1"].level = "public"
    /\ req["r1"].status = 204
    /\ req["r1"].called /\ req["r1"].pushed
    /\ req["r2"].status \in {401, 403}

\* C2: with auth enabled in the config and authless mode off, a request with no
\* credential or an invalid one is answered 401 by authMiddleware and goes no
\* further: no level is resolved, no later middleware or handler runs.
C2_UnauthenticatedIsRejected ==
    /\ [][\A r \in Reqs :
            Steps(r, "auth") /\ cfgAuthEnabled /\ ~settings.AuthlessMode
            /\ ~CredentialValid(req[r].header)
               => /\ req'[r].pc = "done"
                  /\ req'[r].status = 401
                  /\ req'[r].level = ""]_vars
    /\ [](\A r \in Reqs :
            req[r].status = 401 => /\ req[r].pc = "done"
                                   /\ req[r].level = ""
                                   /\ ~req[r].called /\ ~req[r].pushed)
    /\ [][\A r \in Reqs : req[r].status = 401 /\ req'[r].pc # "auth"
                             => req'[r] = req[r]]_vars

\* A request with an invalid bearer token and one with no header at all were
\* both answered 401.
C2_Witness ==
    /\ req["r1"].status = 401 /\ req["r1"].header.cred = "bad"
    /\ req["r2"].status = 401 /\ req["r2"].header = NoHeader

\* C3: a request with a valid token is resolved to the privileged level whatever
\* auth.enabled and authless mode are, and requireFeature then decides it on the
\* admin FeatureSet.
C3_ValidCredentialIsPrivileged ==
    [][\A r \in Reqs :
         /\ Steps(r, "auth") /\ CredentialValid(req[r].header)
               => req'[r].level = "admin" /\ req'[r].status # 401
         /\ Steps(r, "feature") /\ CredentialValid(req[r].header)
               => /\ req[r].level = "admin"
                  /\ req'[r].pc = "handler"
                        <=> settings.AdminFeatures[SwitchOf(req[r].route)]
                  /\ req'[r].pc # "handler" => req'[r].status = 403]_vars

\* With authless mode on, a request with a valid token passed the feature gate
\* on a switch that is on for admins and off for the public.
C3_Witness ==
    /\ settings.AuthlessMode
    /\ req["r1"].pc = "handler"
    /\ req["r1"].route \in FeatureRoutes
    /\ CredentialValid(req["r1"].header)
    /\ settings.AdminFeatures[SwitchOf(req["r1"].route)]
    /\ ~settings.PublicFeatures[SwitchOf(req["r1"].route)]

\* C4, as stated: with authless mode on, authMiddleware resolves the public
\* level for every request, with or without a credential, valid or not.
C4_AuthlessAlwaysPublic ==
    [][\A r \in Reqs :
         Steps(r, "auth") /\ settings.AuthlessMode => req'[r].level = "public"]_vars

\* C4, amended: with authless mode on no request is refused as unauthenticated;
\* authMiddleware resolves the public level for a request without a valid
\* credential and the privileged level for a request with one.
C4_AuthlessPublicUnlessValid ==
    [][\A r \in Reqs :
         Steps(r, "auth") /\ settings.AuthlessMode
            => /\ req'[r].status # 401
               /\ req'[r].level =
                     IF CredentialValid(req[r].header) THEN "admin" ELSE "public"]_vars

\* With authless mode on and auth enabled, a request carrying an invalid token
\* went on as public.
C4_Witness ==
    /\ cfgAuthEnabled /\ settings.AuthlessMode
    /\ req["r1"].pc \in {"feature", "admin"}
    /\ req["r1"].header.cred = "bad"
    /\ req["r1"].level = "public"

C7_AuthDisabledAllAdmin ==
    [][\A r \in Reqs :
         /\ Steps(r, "auth") /\ ~cfgAuthEnabled => req'[r].level = "admin"
         /\ Steps(r, "feature") /\ ~cfgAuthEnabled
               => (req'[r].pc = "handler"
                      <=> settings.AdminFeatures[SwitchOf(req[r].route)])]_vars

(***************************************************************************)
(* Push channel: claims                                                    *)
(***************************************************************************)

\* The FeatureSet the gate would read for the subscriber p: the admin profile
\* with a valid token, the public profile otherwise.
ProfileOfPeer(p) ==
    IF authStore.configured /\ conns[p].token = "good"
    THEN settings.AdminFeatures ELSE settings.PublicFeatures

\* C6: a subscriber whose profile has containers.view (composes.view) off is
\* never written a payload carrying container (stack) state, as the REST gate
\* refuses it GET /api/containers (GET /api/composes).
C6_PushHonoursViewSwitches ==
    \A p \in Peers :
        conns[p].got # <<>> =>
            /\ conns[p].got[1].Containers # <<>> => ProfileOfPeer(p)["containers.view"]
            /\ conns[p].got[1].Composes # <<>> => ProfileOfPeer(p)["composes.view"]

(***************************************************************************)
(* Rate limiter: claims                                                    *)
(***************************************************************************)

\* Number of entries of s newer than cutoff.
CountAfter(s, cutoff) == Len(SelectSeq(s, LAMBDA t : t > cutoff))

\* Number of entries of s inside the window [w, w + rateLimitWindow).
CountInWindow(s, w) ==
    Len(SelectSeq(s, LAMBDA t : t >= w /\ t < w + rateLimitWindow))

\* No 60-second window holds more than rateLimitMax admitted timestamps of one
\* origin.
AtMostMaxPerWindow ==
    \A ip \in Origins : \A i \in 1..Len(admitted[ip]) :
        CountInWindow(admitted[ip], admitted[ip][i]) <= rateLimitMax

\* A bucket never holds more than rateLimitMax timestamps.
BucketsBounded ==
    \A ip \in DOMAIN buckets : Len(buckets[ip]) <= rateLimitMax

\* A step that is a whole allow(ip) call at clock reading now: the call is
\* admitted iff fewer than rateLimitMax calls of that origin were admitted inside
\* the trailing window; the bucket it leaves holds exactly the admitted
\* timestamps of the trailing window, the new one last on admission and none
\* added on rejection; the other buckets are untouched.
AllowStepOK(ip) ==
    LET inWindow == SelectSeq(admitted[ip], LAMBDA t : t > now - rateLimitWindow)
        isAdmitted == admitted'[ip] = SortedInsert(admitted[ip], now)
                      /\ rejected'[ip] = rejected[ip]
        isRejected == rejected'[ip] = SortedInsert(rejected[ip], now)
                      /\ admitted'[ip] = admitted[ip]
    IN  /\ isAdmitted # isRejected
        /\ isAdmitted <=> Len(inWindow) < rateLimitMax
        /\ isAdmitted => buckets'[ip] = Append(inWindow, now)
        /\ isRejected => buckets'[ip] = inWindow
        /\ \A o \in Origins \ {ip} :
              /\ admitted'[o] = admitted[o] /\ rejected'[o] = rejected[o]
              /\ bucketOf(buckets', o) = bucketOf(buckets, o)

\* C8: allow(origin) drops the timestamps that left the 60-second window, admits
\* iff fewer than 5 remain and records a timestamp only on admission: from an
\* empty bucket exactly the first 5 requests of an origin inside a window are
\* admitted and the 6th is rejected, a rejection adds nothing to the bucket, and
\* a bucket never holds more than 5 timestamps.
C8_SlidingWindowAdmission ==
    /\ [](BucketsBounded /\ AtMostMaxPerWindow)
    /\ [][nCalls' # nCalls => \E ip \in Origins : AllowStepOK(ip)]_rlvars

\* C8 witness: an origin had 5 calls admitted at time 0, a 6th call inside the
\* same window was rejected, and a call one full window after the first five
\* was admitted again.
C8_Witness ==
    \E ip \in Origins :
        /\ CountInWindow(admitted[ip], 0) = rateLimitMax
        /\ \E i \in 1..Len(rejected[ip]) : rejected[ip][i] < rateLimitWindow
        /\ \E i \in 1..Len(admitted[ip]) : admitted[ip][i] >= rateLimitWindow

\* C9: under any interleaving of concurrent allow() calls and gc passes no more
\* than 5 requests of one origin with timestamps inside one 60-second window
\* are admitted.
C9_ConcurrentWindowLimit == AtMostMaxPerWindow

\* The clock readings of the model from the present on.
LaterReadings ==
    {k * ClockStep : k \in 0..(MaxTime \div ClockStep)} \ 0..(now - 1)

\* The timestamps of origin ip in the map b that a call reading the clock at n
\* counts.
Counted(b, ip, n) ==
    SelectSeq(bucketOf(b, ip), LAMBDA t : t > n - rateLimitWindow)

\* The window of every timestamp of the bucket of ip has fully elapsed.
Expired(ip) ==
    /\ ip \in DOMAIN buckets
    /\ \A i \in 1..Len(buckets[ip]) : buckets[ip][i] + rateLimitWindow <= now

\* C28: a bucket whose timestamps have all left the window is removed by a
\* later gc pass unless a request of the origin is recorded first; a gc pass
\* keeps every bucket that holds a timestamp inside the window, and for every
\* clock reading from then on leaves each origin the timestamps a call would
\* count, so no later admission changes.
C28_GCRemovesExpiredOnly ==
    /\ [][gcst.pc = "lock" /\ gcst'.pc = "wait" =>
            \A ip \in Origins :
               /\ Counted(buckets, ip, now) # <<>> => ip \in DOMAIN buckets'
               /\ \A n \in LaterReadings :
                     Counted(buckets', ip, n) = Counted(buckets, ip, n)]_vars
    /\ \A ip \in Origins :
          Expired(ip) ~> (ip \notin DOMAIN buckets \/ Counted(buckets, ip, now) # <<>>)

\* At time 60 a gc pass has removed the bucket of the origin whose only request
\* came at 0 and has kept, without its timestamp 0, the bucket of the origin
\* that also asked at 30.
C28_Witness ==
    /\ now = 60
    /\ gcst.pc = "wait"
    /\ admitted["ip1"] = <<0>> /\ "ip1" \notin DOMAIN buckets
    /\ admitted["ip2"] = <<0, 30>>
    /\ "ip2" \in DOMAIN buckets /\ buckets["ip2"] = <<30>>

(***************************************************************************)
(*              Claims on the rate-limited credential endpoints            *)
(***************************************************************************)

\* The origin has as many admitted requests inside the window that ends now
\* as the ceiling allows.
AtCeiling(ip) ==
    Len(SelectSeq(admitted[ip], LAMBDA t : t > now - rateLimitWindow)) >= rateLimitMax

\* C29: on POST /api/auth/login and POST /api/auth/setup the middleware ends
\* a request of an origin at the ceiling with 429, in a step that leaves the
\* auth store as it was and without the auth service having been called for
\* it; the handlers run only for requests the middleware let through, and
\* only they change the auth store.
C29_RateLimitedBeforeCredentials ==
    /\ [][\A c \in CredSlots :
            credReq[c].pc = "limit" /\ credReq'[c].pc # "limit" /\ AtCeiling(credReq[c].ip)
               => /\ credReq'[c].pc = "done"
                  /\ credReq'[c].status = 429
                  /\ ~credReq'[c].checked
                  /\ authStore' = authStore]_vars
    /\ [][\A c \in CredSlots :
            credReq'[c].pc = "handler" /\ credReq[c].pc # "handler"
               => credReq[c].pc = "limit" /\ ~AtCeiling(credReq[c].ip)]_vars
    /\ [][\A c \in CredSlots :
            credReq'[c].checked /\ ~credReq[c].checked => credReq[c].pc = "handler"]_vars
    /\ [](\A c \in CredSlots : credReq[c].status = 429 => ~credReq[c].checked)
    /\ [][authStore' # authStore
            => \E c \in CredSlots : credReq[c].pc = "handler" /\ credReq'[c].status = 200]_vars

\* A first-time setup with an acceptable password, sent by an origin at the
\* ceiling, was answered 429 and the store is still not set up.
C29_Witness ==
    /\ credReq["c1"].pc = "done" /\ credReq["c1"].status = 429
    /\ credReq["c1"].route = "POST /api/auth/setup"
    /\ credReq["c1"].password = "good"
    /\ ~credReq["c1"].checked
    /\ ~authStore.configured
    /\ Len(rejected[credReq["c1"].ip]) >= 1

(***************************************************************************)
(*                 Claims on the routes behind requireAdmin                *)
(***************************************************************************)

\* C30: on the settings read, the settings update and the password change the
\* gate decides on the caller's level alone, whatever the FeatureSets hold: a
\* request that leaves requireAdmin with level admin goes on to its handler,
\* one with level public is answered 403; this includes an admin whose
\* FeatureSet is all off and a public caller whose FeatureSet is all on.
C30_AdminGateIgnoresFeatures ==
    [][\A r \in Reqs :
          req[r].pc = "admin" /\ req'[r].pc # "admin"
             => /\ req[r].route \in AdminRoutes
                /\ req[r].level = "admin"
                      => req'[r].pc = "handler" /\ req'[r].status = 0
                /\ req[r].level # "admin"
                      => req'[r].pc = "done" /\ req'[r].status = 403]_vars

\* With every admin switch off and every public switch on, a public caller's
\* password change was answered 403 and an admin's settings update has been
\* let through to its handler.
C30_Witness ==
    /\ settings.AdminFeatures = AllOff
    /\ settings.PublicFeatures = AllOn
    /\ req["r1"].route = "POST /api/auth/password"
    /\ req["r1"].level = "public"
    /\ req["r1"].pc = "done" /\ req["r1"].status = 403
    /\ req["r2"].route = "POST /api/settings"
    /\ req["r2"].level = "admin"
    /\ req["r2"].pc = "handler"

(***************************************************************************)
(*                       Claims on the auth service                        *)
(***************************************************************************)

\* C31: when a password change returns its token, every token that had been
\* issued when the change wrote the store is rejected by ValidateToken, and
\* the token the change returns is accepted.
C31_PasswordChangeInvalidatesSessions ==
    [][\A a \in AuthCallers :
          authCall[a].op = "change" /\ authCall[a].pc = "issue" /\ authCall'[a].pc = "done"
             => /\ \A t \in authCall[a].seen : ~ServiceValidateToken(authSvc', t)
                /\ ServiceValidateToken(authSvc', authCall'[a].token[1])]_vars

\* C32: at most one Setup call ever returns a token, and a Setup call writes
\* the store only while no setup is complete, so the hash and the secret of a
\* completed setup are never replaced by another Setup call.
C32_SetupSucceedsAtMostOnce ==
    /\ [](authHist.setups <= 1)
    /\ [][\A a \in AuthCallers :
            authCall[a].op = "setup" /\ authCall[a].pc = "write" /\ authCall'[a].pc = "issue"
               => ~IsSetupComplete(authSvc)]_vars

(***************************************************************************)
(*                     Claims on the compose command                       *)
(***************************************************************************)

\* The arguments the verb stands for, after the binary's own sub-command.
VerbArgs(action, removeVolumes) ==
    IF action = "start" THEN <<"up", "-d">>
    ELSE IF action = "stop"
    THEN (IF removeVolumes THEN <<"down", "-v">> ELSE <<"down">>)
    ELSE <<"restart">>

\* The position of the stack called name in the declared list.
DeclaredIndex(name) ==
    (CHOOSE i \in 1..Len(Composes) : Composes[i].Name = name)

C34_PayloadsInRecomputeOrder ==
    \A i, j \in 1..Len(ordSt.handed) :
       i < j => ordSt.handed[i] <= ordSt.handed[j]

(***************************************************************************)
(*             Claims on persisting and reloading the settings             *)
(***************************************************************************)

\* C35: an Update whose save fails leaves s.current as it was when the call
\* took the lock.
C35_FailedSaveKeepsSettings ==
    [][\A c \in Updaters :
          /\ setSvc.proc[c].pc = "save"
          /\ setSvc'.proc[c].pc = "done"
          /\ ~setSvc'.proc[c].saved
          => settings' = setSvc.proc[c].before]_vars

\* C36: right after a start, the settings in memory are the ones the last
\* Update whose save succeeded left in memory, whatever the toggles and the
\* FeatureSets were, an all-false profile included.
C36_PersistReloadRoundTrip ==
    setDisk.fresh /\ setDisk.mem # <<>> => settings = setDisk.mem[1]

(***************************************************************************)
(*           Claims on push-channel admission under settings changes       *)
(***************************************************************************)

\* C37: while authentication is required, the hub queues a payload only for
\* subscribers that connected with a valid token, also after authless mode
\* has been switched off.
C37_PushAdmissionFollowsSettings ==
    [][\A p \in Peers :
          Len(conns'[p].send) > Len(conns[p].send)
             => \/ ~(cfgAuthEnabled /\ ~settings.AuthlessMode)
                \/ conns[p].token # "" /\ ValidateToken(authStore, conns[p].token)]_vars

(***************************************************************************)
(*                 Claims on repeated reconciliation passes                *)
(***************************************************************************)

\* C38: a pass that follows a successful pass, with no change of the engine
\* or of the declaration files in between, returns the same stack snapshots,
\* the order of each service list included.
C38_ReconciliationDeterministic ==
    [][stacks.ret = "ok" /\ stacks'.ret = "ok" => stacks'.val = stacks.val]_vars

(***************************************************************************)
(*              Claims on the termination of the aggregation               *)
(***************************************************************************)

\* The goroutine of entry i is at its send on statsChan.
AtSend(i) ==
    \/ workers[i].pc = "send"
    \/ workers[i].pc = "start" /\ ~isRunning(aggList[i])

\* C39: a pass that listed N containers, N = 0 included, returns; a worker
\* that has reached its send finds room in the channel, which is still open;
\* each worker sends once; the channel is closed once, when every worker has
\* returned; and the collector has received the N samples when it returns.
C39_FanInTerminates ==
    /\ (aggPc = "collect") ~> (aggPc = "done")
    /\ [](aggPc = "collect" =>
            /\ \A i \in 1..Len(workers) :
                  AtSend(i) => Len(statsChan.buf) < chanCap(aggList) /\ ~statsChan.closed
            /\ statsChan.closed => \A i \in 1..Len(workers) : workers[i].pc = "returned"
            /\ Len(statsChan.buf) + Cardinality(statsMap)
                  = Cardinality({i \in 1..Len(workers) : workers[i].pc = "returned"}))
    /\ [][statsChan.closed => statsChan'.closed]_vars
    /\ [][\A i \in 1..Len(workers) :
             workers[i].pc = "returned" => workers'[i].pc = "returned"]_vars
    /\ [](aggPc = "done" /\ aggResult.ret = "ok" =>
            /\ statsChan.closed /\ statsChan.buf = <<>>
            /\ Cardinality(statsMap) = Len(aggList))

\* The pass listed two containers, the worker of the second one has sent its
\* sample ahead of the first, and the collector went on to return.
C39_Witness ==
    /\ aggPc = "done" /\ aggResult.ret = "ok"
    /\ Len(aggList) = 2
    /\ isRunning(aggList[1]) /\ ~isRunning(aggList[2])
    /\ Cardinality(statsMap) = 2
    /\ statsChan.closed

(***************************************************************************)
(*                   Claims on the browser push client                     *)
(***************************************************************************)

\* Sockets of client c whose close event was delivered.
ClosedCount(cl) == Cardinality({k \in DOMAIN cl.socks : cl.socks[k] = "closed"})

\* C40: once disconnect() has run, no step makes a new socket, a step that
\* fires an earlier timer included; while it has not run, a step that
\* delivers a close event sets one timer, and nothing else sets a timer.
C40_NoConnectAfterDisconnect ==
    [][\A c \in WSClients :
         /\ wsc[c].dead => /\ wsc'[c].socks \in Seq({"connecting", "open", "closing", "closed"})
                           /\ Len(wsc'[c].socks) = Len(wsc[c].socks)
                           /\ wsc'[c].opened = wsc[c].opened
                           /\ wsc'[c].dead
         /\ ~wsc[c].dead /\ ClosedCount(wsc'[c]) > ClosedCount(wsc[c])
               => /\ ClosedCount(wsc'[c]) = ClosedCount(wsc[c]) + 1
                  /\ wsc'[c].timers = wsc[c].timers + 1
         /\ wsc'[c].timers > wsc[c].timers
               => ~wsc[c].dead /\ ClosedCount(wsc'[c]) = ClosedCount(wsc[c]) + 1]_vars

\* A client was disconnected while a reconnect timer was pending, and the
\* timer has fired since.
C40_Witness ==
    \E c \in WSClients :
        /\ wsc[c].dead
        /\ wsc[c].lateFires >= 1
        /\ wsc[c].timers = 0
        /\ wsc[c].closes >= 1
        /\ wsc[c].opened = Len(wsc[c].socks)

====
